---------------------------- MODULE Spec2Model ----------------------------
(*
  outline-cli: the typed value parsers (cmd/outline-cli), the registry and
  orchestration layer (internal/config/manager.go) and the certificate-pinned
  management API client (internal/api/client.go).

  Texts are sequences of one-character strings, so that trimming, scanning,
  case folding and suffix lookup are computed character by character as the
  code computes them.  Byte counts are unsigned integers of up to 64 bits and
  float64 significands; they are held as little-endian sequences of 15-bit
  limbs ("Big") because they exceed the range of 32-bit integers.
*)
EXTENDS Integers, Sequences, FiniteSets, TLC

VARIABLES
    \* ---- one CLI invocation (cmd/outline-cli main + internal/config) ----
    servers,    \* cm.config.Servers: name -> [URL, CertSha256]
    before,     \* the registry as it was when the invocation started
    pc,         \* position of the running invocation
    args,       \* the command line of the running invocation (raw texts)
    parsed,     \* the decoded Args of the running invocation
    call,       \* the API client operation in flight, its request and response
    keyID,      \* the key ID the handler resolved (actualKeyID / keyID)
    conn,       \* the connection of the current API client: index in tlsLog
    httpLog,    \* the HTTP requests this invocation has put on the wire
    tlsLog,     \* the TLS handshakes of this invocation and their outcome
    bodies,     \* per response obtained: how many times its body was closed
    apiLog,     \* per API client operation returned: status seen, error returned
    saves,      \* number of saveConfig calls of this invocation
    result,     \* how the invocation ended: exit code and error
    \* ---- the typed value parsers applied to one text ----
    txt,        \* the text handed to the parser
    inp,        \* the pieces txt was assembled from
    out         \* what the parser returned

vars == <<servers, before, pc, args, parsed, call, keyID, conn, httpLog, tlsLog,
          bodies, apiLog, saves, result, txt, inp, out>>

cliVars == <<servers, before, pc, args, parsed, call, keyID, conn, httpLog,
             tlsLog, bodies, apiLog, saves, result>>
parseVars == <<txt, inp, out>>

-----------------------------------------------------------------------------
(* Unsigned integers wider than 31 bits: little-endian limbs, no high zeros. *)

Base == 2^15

Min(a, b) == IF a < b THEN a ELSE b
Max(a, b) == IF a > b THEN a ELSE b

RECURSIVE SmallBits(_)
SmallBits(n) == IF n = 0 THEN 0 ELSE 1 + SmallBits(n \div 2)

LimbBits == SmallBits(Base) - 1

RECURSIVE Norm(_)
Norm(x) == IF x = <<>> THEN <<>>
           ELSE IF x[Len(x)] = 0 THEN Norm(SubSeq(x, 1, Len(x) - 1)) ELSE x

RECURSIVE MulAddRaw(_, _, _)
MulAddRaw(x, m, c) ==
    IF x = <<>> THEN (IF c = 0 THEN <<>> ELSE <<c>>)
    ELSE LET t == x[1] * m + c
         IN  <<t % Base>> \o MulAddRaw(Tail(x), m, t \div Base)

\* x*m + c for 0 <= m, c < Base
MulAdd(x, m, c) == Norm(MulAddRaw(x, m, c))

RECURSIVE DivRemRaw(_, _)
DivRemRaw(x, d) ==
    IF x = <<>> THEN [q |-> <<>>, r |-> 0]
    ELSE LET hi == DivRemRaw(Tail(x), d)
             t  == hi.r * Base + x[1]
         IN  [q |-> <<t \div d>> \o hi.q, r |-> t % d]

\* quotient and remainder of x by 0 < d <= Base
DivRem(x, d) == LET qr == DivRemRaw(x, d) IN [q |-> Norm(qr.q), r |-> qr.r]

RECURSIVE MulPow(_, _, _)
MulPow(x, m, k) == IF k = 0 THEN x ELSE MulPow(MulAdd(x, m, 0), m, k - 1)

BitLen(x) == IF x = <<>> THEN 0
             ELSE (Len(x) - 1) * LimbBits + SmallBits(x[Len(x)])

IsOdd(x) == x # <<>> /\ x[1] % 2 = 1

Shl(x, n) ==
    IF x = <<>> THEN <<>>
    ELSE [i \in 1..(n \div LimbBits) |-> 0] \o MulAdd(x, 2^(n % LimbBits), 0)

\* Shr after the division of the limbs that stay by 2^b
ShrBits(d, st) == [q |-> d.q, sticky |-> d.r # 0 \/ st]

\* Shr by a whole limbs and b bits
ShrLimbs(x, a, b) ==
    ShrBits(DivRem(SubSeq(x, a + 1, Len(x)), 2^b), \E i \in 1..a : x[i] # 0)

\* x shifted right by n bits; sticky tells whether a 1 bit was shifted out
Shr(x, n) == ShrLimbs(x, Min(n \div LimbBits, Len(x)), n % LimbBits)

RECURSIVE CmpFrom(_, _, _)
CmpFrom(x, y, i) ==
    IF i = 0 THEN 0
    ELSE IF x[i] < y[i] THEN -1
    ELSE IF x[i] > y[i] THEN 1
    ELSE CmpFrom(x, y, i - 1)

\* -1, 0, 1 as x <, =, > y
Cmp(x, y) == IF Len(x) < Len(y) THEN -1
             ELSE IF Len(x) > Len(y) THEN 1
             ELSE CmpFrom(x, y, Len(x))

RECURSIVE SubRaw(_, _, _)
SubRaw(x, y, borrow) ==
    IF x = <<>> THEN <<>>
    ELSE LET yi == IF y = <<>> THEN 0 ELSE y[1]
             t  == x[1] - yi - borrow
         IN  <<(t + Base) % Base>>
               \o SubRaw(Tail(x), IF y = <<>> THEN <<>> ELSE Tail(y),
                         IF t < 0 THEN 1 ELSE 0)

\* x - y for x >= y
Sub(x, y) == Norm(SubRaw(x, y, 0))

\* a small natural as a Big
Big(n) == Norm(<<n % Base, (n \div Base) % Base, n \div (Base * Base)>>)

TwoPow(n) == Shl(<<1>>, n)

-----------------------------------------------------------------------------
(* Texts: sequences of one-character strings. *)

IsSpace(c) == c \in {" ", "\t", "\n", "\r"}

RECURSIVE TrimLeft(_)
TrimLeft(s) == IF s # <<>> /\ IsSpace(s[1]) THEN TrimLeft(Tail(s)) ELSE s

RECURSIVE TrimRight(_)
TrimRight(s) == IF s # <<>> /\ IsSpace(s[Len(s)])
                THEN TrimRight(SubSeq(s, 1, Len(s) - 1)) ELSE s

\* strings.TrimSpace
TrimSpace(s) == TrimRight(TrimLeft(s))

UpperCase == <<"A", "B", "C", "D", "E", "F", "G", "H", "I", "J", "K", "L", "M",
               "N", "O", "P", "Q", "R", "S", "T", "U", "V", "W", "X", "Y", "Z">>
LowerCase == <<"a", "b", "c", "d", "e", "f", "g", "h", "i", "j", "k", "l", "m",
               "n", "o", "p", "q", "r", "s", "t", "u", "v", "w", "x", "y", "z">>

LowerChar(c) == IF \E i \in 1..Len(UpperCase) : UpperCase[i] = c
                THEN LowerCase[CHOOSE i \in 1..Len(UpperCase) : UpperCase[i] = c]
                ELSE c
UpperChar(c) == IF \E i \in 1..Len(LowerCase) : LowerCase[i] = c
                THEN UpperCase[CHOOSE i \in 1..Len(LowerCase) : LowerCase[i] = c]
                ELSE c

\* strings.ToLower, strings.ToUpper
ToLower(s) == [i \in 1..Len(s) |-> LowerChar(s[i])]
ToUpper(s) == [i \in 1..Len(s) |-> UpperChar(s[i])]

DigitChars == <<"0", "1", "2", "3", "4", "5", "6", "7", "8", "9">>
IsDigit(c) == \E i \in 1..10 : DigitChars[i] = c
DigitVal(c) == (CHOOSE i \in 1..10 : DigitChars[i] = c) - 1

RECURSIVE Filter(_, _)
Filter(s, c) == IF s = <<>> THEN <<>>
                ELSE (IF s[1] = c THEN <<>> ELSE <<s[1]>>) \o Filter(Tail(s), c)

RECURSIVE Count(_, _)
Count(s, c) == IF s = <<>> THEN 0
               ELSE (IF s[1] = c THEN 1 ELSE 0) + Count(Tail(s), c)

-----------------------------------------------------------------------------
(* float64 values m * 2^e with a significand m of at most 53 bits, as far as
   strconv.ParseFloat, the float64 product and the conversion to uint64 use
   them (IEEE 754 round to nearest, ties to even; no subnormals or infinities
   arise from texts of the lengths considered). *)

\* 52 stored significand bits and the implicit leading one
MantBits == 52 + 1

FloatZero == [m |-> <<>>, e |-> 0]

\* q rounded up when the bit below it is set and the value is past the half
\* or q is odd
RoundHalf(q, half, sticky, e) ==
    [m |-> IF half /\ (sticky \/ IsOdd(q)) THEN MulAdd(q, 1, 1) ELSE q, e |-> e]

\* s1 holds one bit more than the significand
RoundShifted(s1, e, st) == RoundHalf(Shr(s1.q, 1).q, IsOdd(s1.q), s1.sticky \/ st, e)

\* the float64 nearest to (N + d) * 2^e, where 0 <= d < 1 and d > 0 iff st;
\* when st holds N has more than MantBits + 1 bits
RoundFloat(N, e, st) ==
    IF BitLen(N) <= MantBits THEN [m |-> N, e |-> e]
    ELSE RoundShifted(Shr(N, BitLen(N) - MantBits - 1), e + BitLen(N) - MantBits, st)

RECURSIVE DivPow10(_, _)
\* x divided by 10^k, with the sticky flag of the discarded remainder
DivPow10(x, k) ==
    IF k = 0 THEN [q |-> x, sticky |-> FALSE]
    ELSE LET d == DivRem(x, 10)
             r == DivPow10(d.q, k - 1)
         IN  [q |-> r.q, sticky |-> r.sticky \/ d.r # 0]

RECURSIVE DigitsToBig(_, _)
DigitsToBig(s, acc) ==
    IF s = <<>> THEN acc
    ELSE DigitsToBig(Tail(s), MulAdd(acc, 10, DigitVal(s[1])))

\* number of characters of s after its first "."
FracDigits(s) ==
    IF Count(s, ".") = 0 THEN 0
    ELSE Len(s) - (CHOOSE i \in 1..Len(s) : s[i] = "." /\ \A j \in 1..(i-1) : s[j] # ".")

\* the float64 nearest to dv.q * 2^-sh, dv.sticky telling of a remainder
RoundQuot(dv, sh) == RoundFloat(dv.q, 0 - sh, dv.sticky)

\* the float64 nearest to D / 10^q: the quotient of D * 2^sh by 10^q has
\* more than 64 bits
ParseDigits(D, q) ==
    IF D = <<>> THEN FloatZero
    ELSE RoundQuot(DivPow10(Shl(D, 64 + 4 * q), q), 64 + 4 * q)

\* strconv.ParseFloat(num, 64) of a text of digits and dots: a syntax error
\* unless there is a digit and at most one dot; else the nearest float64
ParseFloatOk(num) == Count(num, ".") <= 1 /\ \E i \in 1..Len(num) : IsDigit(num[i])

ParseFloat(num) == ParseDigits(DigitsToBig(Filter(num, "."), <<>>), FracDigits(num))

\* f *= float64(base^k); base^k is exactly representable for the table below
FloatMul(f, base, k) ==
    IF f.m = <<>> THEN FloatZero ELSE RoundFloat(MulPow(f.m, base, k), f.e, FALSE)

\* f >= math.MaxUint64 (the constant converts to the float64 2^64)
FloatGeMaxUint64(f) == f.m # <<>> /\ BitLen(f.m) + f.e >= 65

\* uint64(f) for 0 <= f < 2^64: truncation toward zero
FloatToUint64(f) == IF f.e >= 0 THEN Shl(f.m, f.e) ELSE Shr(f.m, 0 - f.e).q

-----------------------------------------------------------------------------
(* github.com/dustin/go-humanize v1.0.1, ParseBytes: the library the data-size
   parsers call (go.mod line 13). *)

\* bytesSizeTable: lower-cased suffix -> <<base, exponent>> of the multiplier
bytesSizeTable ==
    { << <<"b">>, 1000, 0 >>,
      << <<"k", "i", "b">>, 1024, 1 >>, << <<"k", "b">>, 1000, 1 >>,
      << <<"m", "i", "b">>, 1024, 2 >>, << <<"m", "b">>, 1000, 2 >>,
      << <<"g", "i", "b">>, 1024, 3 >>, << <<"g", "b">>, 1000, 3 >>,
      << <<"t", "i", "b">>, 1024, 4 >>, << <<"t", "b">>, 1000, 4 >>,
      << <<"p", "i", "b">>, 1024, 5 >>, << <<"p", "b">>, 1000, 5 >>,
      << <<"e", "i", "b">>, 1024, 6 >>, << <<"e", "b">>, 1000, 6 >>,
      << <<>>, 1000, 0 >>,
      << <<"k", "i">>, 1024, 1 >>, << <<"k">>, 1000, 1 >>,
      << <<"m", "i">>, 1024, 2 >>, << <<"m">>, 1000, 2 >>,
      << <<"g", "i">>, 1024, 3 >>, << <<"g">>, 1000, 3 >>,
      << <<"t", "i">>, 1024, 4 >>, << <<"t">>, 1000, 4 >>,
      << <<"p", "i">>, 1024, 5 >>, << <<"p">>, 1000, 5 >>,
      << <<"e", "i">>, 1024, 6 >>, << <<"e">>, 1000, 6 >> }

RECURSIVE NumPrefixLen(_)
\* lastDigit: the length of the leading run of digits, "." and ","
NumPrefixLen(s) ==
    IF s # <<>> /\ (IsDigit(s[1]) \/ s[1] = "." \/ s[1] = ",")
    THEN 1 + NumPrefixLen(Tail(s)) ELSE 0

\* ParseBytes from the check against math.MaxUint64 on
ParseScaled(f) ==
    IF FloatGeMaxUint64(f) THEN [err |-> "too large", v |-> <<>>]
    ELSE [err |-> "", v |-> FloatToUint64(f)]

\* ParseBytes of the number num (commas removed) and the lower-cased,
\* trimmed suffix extra
ParseParts(num, extra) ==
    LET m == CHOOSE t \in bytesSizeTable : t[1] = extra
    IN  IF ~ParseFloatOk(num) THEN [err |-> "syntax", v |-> <<>>]
        ELSE IF ~\E t \in bytesSizeTable : t[1] = extra
        THEN [err |-> "unhandled size name", v |-> <<>>]
        ELSE ParseScaled(FloatMul(ParseFloat(num), m[2], m[3]))

ParseSplit(s, lastDigit) ==
    ParseParts(Filter(SubSeq(s, 1, lastDigit), ","),
               ToLower(TrimSpace(SubSeq(s, lastDigit + 1, Len(s)))))

\* humanize.ParseBytes(s): [err, v] with v the uint64 result (0 on error)
ParseBytes(s) == ParseSplit(s, NumPrefixLen(s))

\* int64(u) of a uint64 u: two's complement reinterpretation
ToInt64(u) == IF BitLen(u) = 64 THEN [neg |-> TRUE, mag |-> Sub(TwoPow(64), u)]
              ELSE [neg |-> FALSE, mag |-> u]

Int64Zero == [neg |-> FALSE, mag |-> <<>>]

\* the data-size parsers after humanize.ParseBytes(trimmed) gave r: an error
\* that quotes trimmed and leaves d, or int64(bytes)
DataSizeResult(trimmed, r, d) ==
    IF r.err # ""
    THEN [err |-> "invalid data size format", got |-> trimmed, bytes |-> d]
    ELSE [err |-> "", got |-> <<>>, bytes |-> ToInt64(r.v)]

\* ParseDataSize with the error of ParseBytes dropped
ParseDataSizeErrDropped(sizeStr) ==
    IF sizeStr = <<>> THEN [err |-> "", got |-> <<>>, bytes |-> Int64Zero]
    ELSE [err |-> "", got |-> <<>>, bytes |-> ToInt64(ParseBytes(TrimSpace(sizeStr)).v)]

\* config.ParseDataSize(sizeStr): [err, got, bytes]; err = "" is a nil error,
\* got is the text the error message quotes ("... Got: %s")
ParseDataSize(sizeStr) ==
    IF sizeStr = <<>> THEN [err |-> "", got |-> <<>>, bytes |-> Int64Zero]
    ELSE DataSizeResult(TrimSpace(sizeStr), ParseBytes(TrimSpace(sizeStr)), Int64Zero)

\* (*DataSize).UnmarshalText(text) on a receiver holding d: [err, got, bytes]
DataSizeUnmarshalText(d, text) ==
    IF Len(text) = 0 THEN [err |-> "", got |-> <<>>, bytes |-> Int64Zero]
    ELSE DataSizeResult(TrimSpace(text), ParseBytes(TrimSpace(text)), d)

-----------------------------------------------------------------------------
(* github.com/dustin/go-humanize v1.0.1, Bytes: the formatter DataSize.String
   calls.  float64(s) is rounded as the code rounds it; the quotient by the
   power of 1000 and the rounding to tenths are computed exactly, which agrees
   with the float64 computation away from the powers of 1000 above 2^53. *)

sizes == << <<"B">>, <<"k", "B">>, <<"M", "B">>, <<"G", "B">>, <<"T", "B">>,
            <<"P", "B">>, <<"E", "B">> >>

RECURSIVE BigToDigits(_)
BigToDigits(x) ==
    IF x = <<>> THEN <<>>
    ELSE LET d == DivRem(x, 10) IN BigToDigits(d.q) \o <<DigitChars[d.r + 1]>>

\* fmt "%d" of an unsigned integer
FormatUint(x) == IF x = <<>> THEN <<"0">> ELSE BigToDigits(x)

RECURSIVE Log1000(_)
\* math.Floor(logn(s, 1000)) for s >= 1
Log1000(x) == IF Cmp(x, Big(1000)) < 0 THEN 0 ELSE 1 + Log1000(DivRem(x, 1000).q)

RECURSIVE DivPow1000(_, _)
DivPow1000(x, k) == IF k = 0 THEN x ELSE DivPow1000(DivRem(x, 1000).q, k - 1)

\* fmt "%.0f" of tenths/10, whole being tenths divided by ten: half to even
FormatRounded(whole) ==
    FormatUint(IF whole.r > 5 \/ (whole.r = 5 /\ IsOdd(whole.q))
               THEN MulAdd(whole.q, 1, 1) ELSE whole.q)

\* humanize.Bytes from the choice of the format on: "%.1f %s" below ten,
\* "%.0f %s" from ten on, of val = tenths/10 and the suffix sizes[e]
FormatVal(tenths, whole, e) ==
    IF Cmp(tenths, Big(100)) < 0
    THEN FormatUint(whole.q) \o <<".", DigitChars[whole.r + 1]>> \o <<" ">> \o sizes[e + 1]
    ELSE FormatRounded(whole) \o <<" ">> \o sizes[e + 1]

\* val = math.Floor(fs / 1000^e * 10 + 0.5) / 10, kept in tenths
Tenths(fs, e) == DivRem(MulAdd(DivPow1000(MulAdd(fs, 20, 0), e), 1, 1), 2).q

HumanizeTenths(tenths, e) == FormatVal(tenths, DivRem(tenths, 10), e)

\* humanize.Bytes from e := math.Floor(logn(float64(s), 1000)) on
HumanizeFloat(fs) == HumanizeTenths(Tenths(fs, Log1000(fs)), Log1000(fs))

\* the integer a float64 of exponent f.e >= 0 stands for
FloatInt(f) == Shl(f.m, f.e)

\* humanize.Bytes(s) for a uint64 s
HumanizeBytes(s) ==
    IF Cmp(s, Big(10)) < 0 THEN FormatUint(s) \o <<" ", "B">>
    ELSE HumanizeFloat(FloatInt(RoundFloat(s, 0, FALSE)))

\* uint64(d.Bytes) of an int64
ToUint64(b) == IF b.neg THEN Sub(TwoPow(64), b.mag) ELSE b.mag

\* DataSize.String()
\* the formatter without its test for zero
DataSizeStringNoZeroTest(b) == HumanizeBytes(ToUint64(b))
DataSizeString(b) == IF b.mag = <<>> THEN <<>> ELSE HumanizeBytes(ToUint64(b))

-----------------------------------------------------------------------------
(* The other typed value parsers of cmd/outline-cli. *)

HexChars == <<"0", "1", "2", "3", "4", "5", "6", "7", "8", "9",
              "a", "b", "c", "d", "e", "f", "A", "B", "C", "D", "E", "F">>
IsHex(c) == \E i \in 1..Len(HexChars) : HexChars[i] = c

\* hex.DecodeString(s) succeeds
HexDecodeOk(s) == Len(s) % 2 = 0 /\ \A i \in 1..Len(s) : IsHex(s[i])

\* (*CertSHA256).UnmarshalText(text) on a receiver holding c: [err, hash]
CertSHA256UnmarshalText(c, text) ==
    IF Len(text) = 0 THEN [err |-> "certificate SHA256 cannot be empty", hash |-> c]
    ELSE LET hash == TrimSpace(text)
         IN  IF ~HexDecodeOk(hash)
             THEN [err |-> "invalid SHA256 hash format", hash |-> c]
             ELSE [err |-> "", hash |-> hash]

\* strconv.Atoi(s): [ok, neg, mag]; a sign, then digits only; the value must
\* fit an int (64 bits)
Atoi(s) ==
    LET signed == s # <<>> /\ s[1] \in {"+", "-"}
        ds     == IF signed THEN Tail(s) ELSE s
        mag    == DigitsToBig(ds, <<>>)
        neg    == signed /\ s[1] = "-"
        syntax == ds # <<>> /\ \A i \in 1..Len(ds) : IsDigit(ds[i])
        fits   == syntax /\ (BitLen(mag) <= 63 \/ (neg /\ mag = TwoPow(63)))
    IN  [ok |-> fits, neg |-> neg, mag |-> IF fits THEN mag ELSE <<>>]

PortMin == 1
PortMax == 65535

\* the value of a Big known to be at most PortMax
SmallOf(x) == IF x = <<>> THEN 0
              ELSE IF Len(x) = 1 THEN x[1] ELSE x[1] + x[2] * Base

\* Port.UnmarshalText without its range test
PortUnmarshalTextNoRange(p, text) ==
    IF Len(text) = 0 \/ ~Atoi(TrimSpace(text)).ok
    THEN [err |-> "invalid port number", number |-> p]
    ELSE [err |-> "", number |-> SmallOf(Atoi(TrimSpace(text)).mag)]

\* (*Port).UnmarshalText(text) on a receiver holding p: [err, number]
PortUnmarshalText(p, text) ==
    IF Len(text) = 0 THEN [err |-> "port cannot be empty", number |-> p]
    ELSE LET r == Atoi(TrimSpace(text))
         IN  IF ~r.ok THEN [err |-> "invalid port number", number |-> p]
             ELSE IF r.neg /\ r.mag # <<>> THEN
                      [err |-> "port must be between 1 and 65535", number |-> p]
             ELSE IF Cmp(r.mag, Big(PortMin)) < 0 \/ Cmp(r.mag, Big(PortMax)) > 0 THEN
                      [err |-> "port must be between 1 and 65535", number |-> p]
             ELSE [err |-> "", number |-> SmallOf(r.mag)]

aes256gcm == <<"a","e","s","-","2","5","6","-","g","c","m">>
aes192gcm == <<"a","e","s","-","1","9","2","-","g","c","m">>
aes128gcm == <<"a","e","s","-","1","2","8","-","g","c","m">>
chacha20poly1305 == <<"c","h","a","c","h","a","2","0","-","p","o","l","y","1","3","0","5">>

validEncryptionMethods == {aes256gcm, aes192gcm, aes128gcm, chacha20poly1305}

\* the map literal's entries in the order they are written
validEncryptionMethodsLiteral == <<aes256gcm, aes192gcm, aes128gcm, chacha20poly1305>>

\* for m := range validEncryptionMethods: the runtime starts a range over a
\* map at an offset it draws at random, so the entries come out in any
\* rotation of their stored order
Rotate(s, k) == [i \in 1..Len(s) |-> s[((i - 1 + k) % Len(s)) + 1]]
RangeOrders == {Rotate(validEncryptionMethodsLiteral, k) :
                    k \in 0..(Len(validEncryptionMethodsLiteral) - 1)}

RECURSIVE Join(_, _)
\* strings.Join(elems, sep)
Join(elems, sep) == IF elems = <<>> THEN <<>>
                    ELSE IF Len(elems) = 1 THEN elems[1]
                    ELSE elems[1] \o sep \o Join(Tail(elems), sep)

\* (*EncryptionMethod).UnmarshalText(text) on a receiver holding e, when a
\* range over the map yields validMethods: [err, valid, method], valid being
\* the list the error message ends with
EncryptionMethodUnmarshalText(e, text, validMethods) ==
    IF Len(text) = 0 THEN [err |-> "", valid |-> <<>>, method |-> aes192gcm]
    ELSE IF TrimSpace(text) \notin validEncryptionMethods
    THEN [err |-> "invalid encryption method",
          valid |-> Join(validMethods, <<",", " ">>), method |-> e]
    ELSE [err |-> "", valid |-> <<>>, method |-> TrimSpace(text)]

-----------------------------------------------------------------------------
(* net/url.Parse, as far as ServerURL.UnmarshalText reads its result: the
   scheme and the host of the parsed URL, or an error. *)

Letters == {"a","b","c","d","e","f","g","h","i","j","k","l","m","n","o","p","q",
            "r","s","t","u","v","w","x","y","z",
            "A","B","C","D","E","F","G","H","I","J","K","L","M","N","O","P","Q",
            "R","S","T","U","V","W","X","Y","Z"}

\* index of the first c in s, or 0
IndexOf(s, c) == IF \E i \in 1..Len(s) : s[i] = c
                 THEN CHOOSE i \in 1..Len(s) : s[i] = c /\ \A j \in 1..(i-1) : s[j] # c
                 ELSE 0
\* index of the last c in s, or 0
LastIndexOf(s, c) == IF \E i \in 1..Len(s) : s[i] = c
                     THEN CHOOSE i \in 1..Len(s) : s[i] = c /\ \A j \in (i+1)..Len(s) : s[j] # c
                     ELSE 0

HasPrefix(s, p) == Len(s) >= Len(p) /\ SubSeq(s, 1, Len(p)) = p

RECURSIVE getSchemeAt(_, _)
\* url.getScheme: [err, scheme, rest], scanning from position i
getSchemeAt(rawURL, i) ==
    IF i > Len(rawURL) THEN [err |-> "", scheme |-> <<>>, rest |-> rawURL]
    ELSE IF rawURL[i] \in Letters THEN getSchemeAt(rawURL, i + 1)
    ELSE IF IsDigit(rawURL[i]) \/ rawURL[i] \in {"+", "-", "."} THEN
        (IF i = 1 THEN [err |-> "", scheme |-> <<>>, rest |-> rawURL]
         ELSE getSchemeAt(rawURL, i + 1))
    ELSE IF rawURL[i] = ":" THEN
        (IF i = 1 THEN [err |-> "missing protocol scheme", scheme |-> <<>>, rest |-> <<>>]
         ELSE [err |-> "", scheme |-> SubSeq(rawURL, 1, i - 1),
               rest |-> SubSeq(rawURL, i + 1, Len(rawURL))])
    ELSE [err |-> "", scheme |-> <<>>, rest |-> rawURL]

\* url.parseAuthority / parseHost: the host (with its port) of an authority
parseAuthority(authority) ==
    LET at   == LastIndexOf(authority, "@")
        host == SubSeq(authority, at + 1, Len(authority))
        col  == LastIndexOf(host, ":")
        port == SubSeq(host, col + 1, Len(host))
    IN  IF \E i \in 1..Len(host) : host[i] \in {" ", "<", ">", "\""} THEN
            [err |-> "invalid character in host name", host |-> <<>>]
        ELSE IF col > 0 /\ \E i \in 1..Len(port) : ~IsDigit(port[i]) THEN
            [err |-> "invalid port", host |-> <<>>]
        ELSE [err |-> "", host |-> host]

\* url.Parse(rawURL): [err, scheme, host]
urlParse(rawURL) ==
    LET hash   == IndexOf(rawURL, "#")
        u      == IF hash = 0 THEN rawURL ELSE SubSeq(rawURL, 1, hash - 1)
        sch    == getSchemeAt(u, 1)
        qm     == IndexOf(sch.rest, "?")
        rest   == IF qm = 0 THEN sch.rest ELSE SubSeq(sch.rest, 1, qm - 1)
        slash  == IndexOf(rest, "/")
        seg    == IF slash = 0 THEN rest ELSE SubSeq(rest, 1, slash - 1)
        auth   == LET r2 == SubSeq(rest, 3, Len(rest))
                      s2 == IndexOf(r2, "/")
                  IN  IF s2 = 0 THEN r2 ELSE SubSeq(r2, 1, s2 - 1)
        h      == parseAuthority(auth)
        none   == [err |-> "", scheme |-> ToLower(sch.scheme), host |-> <<>>]
    IN  IF sch.err # "" THEN [err |-> sch.err, scheme |-> <<>>, host |-> <<>>]
        ELSE IF ~HasPrefix(rest, <<"/">>) THEN
            (IF sch.scheme # <<>> THEN none      \* opaque URL: no host
             ELSE IF IndexOf(seg, ":") > 0 THEN
                 [err |-> "first path segment in URL cannot contain colon",
                  scheme |-> <<>>, host |-> <<>>]
             ELSE none)
        ELSE IF (sch.scheme # <<>> \/ ~HasPrefix(rest, <<"/", "/", "/">>))
                /\ HasPrefix(rest, <<"/", "/">>) THEN
            (IF h.err # "" THEN [err |-> h.err, scheme |-> <<>>, host |-> <<>>]
             ELSE [err |-> "", scheme |-> ToLower(sch.scheme), host |-> h.host])
        ELSE none

\* ServerURL.UnmarshalText without its test for a host
ServerURLUnmarshalTextNoHost(s, text) ==
    IF Len(text) = 0 THEN [err |-> "URL cannot be empty", url |-> s]
    ELSE IF urlParse(TrimSpace(text)).err # "" THEN [err |-> "invalid URL format", url |-> s]
    ELSE IF urlParse(TrimSpace(text)).scheme = <<>>
    THEN [err |-> "URL must include a scheme", url |-> s]
    ELSE [err |-> "", url |-> TrimSpace(text)]

\* (*ServerURL).UnmarshalText(text) on a receiver holding s: [err, url]
ServerURLUnmarshalText(s, text) ==
    IF Len(text) = 0 THEN [err |-> "URL cannot be empty", url |-> s]
    ELSE LET urlStr == TrimSpace(text)
             p      == urlParse(urlStr)
         IN  IF p.err # "" THEN [err |-> "invalid URL format", url |-> s]
             ELSE IF p.scheme = <<>> THEN [err |-> "URL must include a scheme", url |-> s]
             ELSE IF p.host = <<>> THEN [err |-> "URL must include a host", url |-> s]
             ELSE [err |-> "", url |-> urlStr]

-----------------------------------------------------------------------------
(* The data-size parsers applied to one text.  The text is assembled from a
   sign, a magnitude, a gap, a unit suffix and surrounding padding, and handed
   to the parser as one sequence of characters. *)

MaxIntDigits == 2
MaxFracDigits == 1

MagDigits == {"0", "1", "4"}

DigitStrings(n) == UNION {[1..k -> MagDigits] : k \in 0..n}

ExtraMags == { <<"9","9","9","9","9","9","9">>,     \* 9999999
               <<"1",",","0","0","0">>,             \* 1,000
               <<"1",".","4",".","1">> }            \* 1.4.1

Mags == {i \o f : i \in DigitStrings(MaxIntDigits),
                  f \in {<<>>} \cup {<<".">> \o d : d \in DigitStrings(MaxFracDigits)}}
        \cup ExtraMags

Units == { <<>>, <<"B">>, <<"b">>,
           <<"K","B">>, <<"k","b">>, <<"M","B">>, <<"G","B">>, <<"G","b">>,
           <<"T","B">>, <<"K","i","B">>, <<"k","i","b">>, <<"M","i","B">>,
           <<"G","i","B">>, <<"T","i","B">>,
           <<"Z","B">>, <<"P","B">>, <<"E","B">>, <<"E","i","B">>,
           <<"K">>, <<"G","i">>, <<"X">>, <<"i","n","v","a","l","i","d">> }

none == <<>>
sp   == <<" ">>

Decors == { [sign |-> none,    pad1 |-> none, gap |-> none, pad2 |-> none],
            [sign |-> none,    pad1 |-> sp,   gap |-> none, pad2 |-> sp],
            [sign |-> none,    pad1 |-> none, gap |-> none, pad2 |-> sp \o sp],
            [sign |-> none,    pad1 |-> none, gap |-> sp \o sp, pad2 |-> none],
            [sign |-> <<"-">>, pad1 |-> none, gap |-> none, pad2 |-> none] }

Inputs == {[sign |-> d.sign, pad1 |-> d.pad1, gap |-> d.gap, pad2 |-> d.pad2,
            mag |-> m, unit |-> u] : d \in Decors, m \in Mags, u \in Units}

\* the text without its padding, and the text as typed
Core(i) == i.sign \o i.mag \o i.gap \o i.unit
Assemble(i) == i.pad1 \o Core(i) \o i.pad2

NoOut == [fn |-> "none"]

\* the CLI part of the state takes no step while a parser is exercised
CliOff ==
    /\ servers = <<>> /\ before = <<>> /\ pc = "off" /\ args = <<>>
    /\ parsed = <<>> /\ call = <<>> /\ keyID = <<>> /\ conn = 0
    /\ httpLog = <<>> /\ tlsLog = <<>> /\ bodies = <<>> /\ apiLog = <<>>
    /\ saves = 0 /\ result = <<>>

InitParse == CliOff /\ inp \in Inputs /\ txt = Assemble(inp) /\ out = NoOut

\* result, err := ParseDataSize(txt)
CallParseDataSize ==
    /\ out = NoOut
    /\ LET r == ParseDataSize(txt)
       IN  out' = [fn |-> "ParseDataSize", err |-> r.err, got |-> r.got,
                   bytes |-> r.bytes]
    /\ UNCHANGED <<txt, inp>> /\ UNCHANGED cliVars

\* var ds DataSize; err := ds.UnmarshalText([]byte(txt))
CallDataSizeUnmarshalText ==
    /\ out = NoOut
    /\ LET r == DataSizeUnmarshalText(Int64Zero, txt)
       IN  out' = [fn |-> "DataSize.UnmarshalText", err |-> r.err, got |-> r.got,
                   bytes |-> r.bytes]
    /\ UNCHANGED <<txt, inp>> /\ UNCHANGED cliVars

NextParse == CallParseDataSize \/ CallDataSizeUnmarshalText

SpecParse == InitParse /\ [][NextParse]_vars

-----------------------------------------------------------------------------
(* Data-size claims (SpecParse). *)

\* the units the specification names, lower-cased, with base and exponent
SpecUnits ==
    { << <<>>, 1000, 0 >>, << <<"b">>, 1000, 0 >>,
      << <<"k","b">>, 1000, 1 >>, << <<"m","b">>, 1000, 2 >>,
      << <<"g","b">>, 1000, 3 >>, << <<"t","b">>, 1000, 4 >>,
      << <<"k","i","b">>, 1024, 1 >>, << <<"m","i","b">>, 1024, 2 >>,
      << <<"g","i","b">>, 1024, 3 >>, << <<"t","i","b">>, 1024, 4 >> }

FoldedUnit(i) == [k \in 1..Len(i.unit) |-> LowerChar(i.unit[k])]
IsSpecUnit(i) == \E u \in SpecUnits : u[1] = FoldedUnit(i)
SpecUnit(i) == CHOOSE u \in SpecUnits : u[1] = FoldedUnit(i)

\* a decimal magnitude: digits with at most one decimal point
IsMagnitude(m) ==
    /\ \E k \in 1..Len(m) : IsDigit(m[k])
    /\ \A k \in 1..Len(m) : IsDigit(m[k]) \/ m[k] = "."
    /\ Cardinality({k \in 1..Len(m) : m[k] = "."}) <= 1

\* floor(n * base^k) for the magnitude n = m, computed on integers
ExactBytes(m, base, k) ==
    LET digits == SelectSeq(m, IsDigit)
        dot    == IndexOf(m, ".")
        frac   == IF dot = 0 THEN 0 ELSE Len(m) - dot
    IN  DivPow10(MulPow(DigitsToBig(digits, <<>>), base, k), frac).q

Parsed == out.fn # "none"

\* C7 (as claimed): every non-negative magnitude n with one of the units
\* B..TB, KiB..TiB in any letter case, or with no unit, parses without error
\* to floor(n * 1000^k), respectively floor(n * 1024^k), bytes.
C7_ExactProduct ==
    (Parsed /\ inp.sign = none /\ IsMagnitude(inp.mag) /\ IsSpecUnit(inp))
        => /\ out.err = ""
           /\ out.bytes = [neg |-> FALSE,
                           mag |-> ExactBytes(inp.mag, SpecUnit(inp)[2], SpecUnit(inp)[3])]

\* the units no part of the specification names but ParseBytes knows
MoreUnits ==
    { <<"p","b">>, <<"e","b">>, <<"p","i","b">>, <<"e","i","b">>,
      <<"k">>, <<"m">>, <<"g">>, <<"t">>, <<"p">>, <<"e">>,
      <<"k","i">>, <<"m","i">>, <<"g","i">>, <<"t","i">>, <<"p","i">>, <<"e","i">> }

NoMagnitude(i) == \A k \in 1..Len(i.mag) : ~IsDigit(i.mag[k])
Rejected == out.err # "" /\ out.bytes = Int64Zero

\* C8 (as claimed): a text with no leading magnitude, with a negative
\* magnitude, or with a unit other than B, KB, MB, GB, TB, KiB, MiB, GiB, TiB
\* is rejected with an error and a zero result.
C8_RejectsAllButSpecUnits ==
    (Parsed /\ TrimSpace(txt) # <<>>
       /\ (NoMagnitude(inp) \/ inp.sign = <<"-">> \/ ~IsSpecUnit(inp)))
        => Rejected

\* C8 (amended): a text with no leading magnitude, with a negative magnitude,
\* or with a unit that is none of B, KB, MB, GB, TB, PB, EB, KiB, MiB, GiB,
\* TiB, PiB, EiB nor one of these without its final B (in any letter case)
\* is rejected with an error and a zero result.
C8_RejectsUnknownUnits ==
    (Parsed /\ TrimSpace(txt) # <<>>
       /\ (NoMagnitude(inp) \/ inp.sign = <<"-">>
             \/ (~IsSpecUnit(inp) /\ FoldedUnit(inp) \notin MoreUnits)))
        => Rejected

\* C8 witness: "1ZB" was parsed and rejected.
C8_Witness ==
    /\ Parsed /\ inp.mag = <<"1">> /\ inp.unit = <<"Z","B">> /\ inp.sign = none
    /\ Rejected

\* C9 (as claimed): no accepted text, whatever its magnitude and unit, yields
\* a negative (wrapped-around) byte count.
C9_NonNegative == (Parsed /\ out.err = "") => ~out.bytes.neg

\* the parser under test applied to another text
Reparse(t) ==
    IF out.fn = "ParseDataSize" THEN ParseDataSize(t)
    ELSE DataSizeUnmarshalText(Int64Zero, t)

\* C10 (as claimed): padding never changes the result, and a text that is
\* empty once trimmed parses to (0, nil).
C10_TrimFirst ==
    Parsed =>
        /\ LET r == Reparse(Core(inp))
           IN  out.err = r.err /\ out.got = r.got /\ out.bytes = r.bytes
        /\ (TrimSpace(txt) = <<>> => out.err = "" /\ out.bytes = Int64Zero)

-----------------------------------------------------------------------------
(* One invocation of the CLI: the command lines considered. *)

Names == {"s1", "s2"}

NoServer == [present |-> FALSE, URL |-> <<>>, CertSha256 |-> <<>>]
Server(url, cert) == [present |-> TRUE, URL |-> url, CertSha256 |-> cert]

urlHttps    == <<"h","t","t","p","s",":","/","/","h","/","s">>   \* https://h/s
urlHttp     == <<"h","t","t","p",":","/","/","h","/","s">>       \* http://h/s
urlNoScheme == <<"h","/","s">>                                   \* h/s
urlNoHost   == <<"h","t","t","p","s",":","/","/","/","s">>       \* https:///s

certMixed  == <<"a","B">>       \* a fingerprint in mixed case (2 of 64 digits)
certNotHex == <<"z","z">>
certBlank  == <<" ">>

Absent == [given |-> FALSE, text |-> <<>>]
Opt(t) == [given |-> TRUE, text |-> t]

keyA == <<"A">>
keyB == <<"B">>
newN == <<"N">>
id7  == <<"7">>

\* the JSON positional of servers add-json: no text, a text that is no JSON,
\* or an object with the two fields the program reads ("" for a missing one)
NoJSON == [kind |-> "none", apiUrl |-> <<>>, certSha256 |-> <<>>]
JSONGarbage == [kind |-> "garbage", apiUrl |-> <<>>, certSha256 |-> <<>>]
JSONObject(apiUrl, certSha256) ==
    [kind |-> "object", apiUrl |-> apiUrl, certSha256 |-> certSha256]

NoArgs == [cmd |-> "none", name |-> "", url |-> Absent, cert |-> Absent,
           server |-> "", keyName |-> Absent, method |-> Absent, port |-> Absent,
           dataLimit |-> Absent, keyID |-> Absent, newName |-> Absent,
           removeLimit |-> FALSE, json |-> NoJSON]

\* a limit in a binary unit: 1024 bytes
limitKiB == <<"1","K","i","B">>
LimitArgs == {Absent, Opt(<<"1","K","B">>), Opt(<<"1","Z","B">>)}

Commands ==
       {[NoArgs EXCEPT !.cmd = "servers add", !.name = n, !.url = Opt(u), !.cert = Opt(c)] :
            n \in Names, u \in {urlHttps, urlHttp, urlNoScheme, urlNoHost},
            c \in {certMixed, certNotHex, certBlank}}
  \cup {[NoArgs EXCEPT !.cmd = "servers update", !.name = n, !.url = u] :
            n \in Names, u \in {Absent, Opt(urlHttp), Opt(urlHttps), Opt(urlNoScheme)}}
  \cup {[NoArgs EXCEPT !.cmd = c, !.name = n] :
            c \in {"servers delete", "servers get"}, n \in Names}
  \cup {[NoArgs EXCEPT !.cmd = c, !.server = n] :
            c \in {"servers metrics", "keys list"}, n \in Names}
  \cup {[NoArgs EXCEPT !.cmd = "keys create", !.server = n, !.keyName = k,
                       !.method = m, !.port = p, !.dataLimit = l] :
            n \in Names, k \in {Absent, Opt(newN)},
            m \in {Absent, Opt(<<"r","c","4">>)},
            p \in {Absent, Opt(<<"8","0">>), Opt(<<"0">>)},
            l \in LimitArgs \cup {Opt(<<"0">>)}}
  \cup {[NoArgs EXCEPT !.cmd = "keys create", !.server = n, !.dataLimit = Opt(limitKiB)] :
            n \in Names}
  \cup {[NoArgs EXCEPT !.cmd = "keys edit", !.server = n, !.keyID = Opt(id7),
                       !.dataLimit = Opt(limitKiB)] : n \in Names}
  \cup {[NoArgs EXCEPT !.cmd = "keys delete", !.server = n, !.keyID = i, !.keyName = k] :
            n \in Names, i \in {Absent, Opt(id7)}, k \in {Absent, Opt(keyB)}}
  \cup {[NoArgs EXCEPT !.cmd = "keys edit", !.server = n, !.keyID = i, !.keyName = k,
                       !.newName = w, !.dataLimit = l, !.removeLimit = r] :
            n \in Names, i \in {Absent, Opt(id7)}, k \in {Absent, Opt(keyB)},
            w \in {Absent, Opt(newN)}, l \in LimitArgs, r \in BOOLEAN}

NilErr == [class |-> "nil", msg |-> ""]
Err(class, msg) == [class |-> class, msg |-> msg]

\* the request body, the response and the call of an API operation
NoBody == [kind |-> "none", name |-> <<>>, method |-> <<>>, port |-> 0,
           limit |-> [set |-> FALSE, bytes |-> Int64Zero]]

NoResp == [present |-> FALSE, status |-> 0, kind |-> "none", text |-> "", keys |-> <<>>]
Resp(status, kind, text, keys) ==
    [present |-> TRUE, status |-> status, kind |-> kind, text |-> text, keys |-> keys]

Idle(pin) == [op |-> "none", url |-> <<>>, pin |-> pin, method |-> "", path |-> <<>>,
              id |-> <<>>, body |-> NoBody, resp |-> NoResp, err |-> NilErr]

NoResult == [exit |-> -1, err |-> NilErr, panic |-> FALSE]

\* os.Exit codes: arg.MustParse / parser.Fail leave with -1 (255), the
\* outermost handler with 1, a panic with 2
ExitParser == 255
ExitError == 1
ExitPanic == 2

Exited(code, err) == [exit |-> code, err |-> err, panic |-> FALSE]

Init ==
    /\ servers = [n \in Names |-> NoServer]
    /\ before = [n \in Names |-> NoServer]
    /\ pc = "idle" /\ args = NoArgs /\ parsed = NoArgs /\ call = Idle(<<>>)
    /\ keyID = <<>> /\ conn = 0 /\ httpLog = <<>> /\ tlsLog = <<>>
    /\ bodies = <<>> /\ apiLog = <<>> /\ saves = 0 /\ result = NoResult
    /\ txt = <<>> /\ inp = <<>> /\ out = NoOut

\* the shell starts the program with a command line; NewConfigManager loads
\* the registry the last run left in the file
Invoke ==
    /\ pc = "idle"
    /\ \E a \in Commands : args' = a
    /\ pc' = "parse"
    /\ before' = servers
    /\ UNCHANGED <<servers, parsed, call, keyID, conn, httpLog, tlsLog, bodies, apiLog,
                   saves, result, txt, inp, out>>

\* the process is gone: nothing but the registry file is left of it
Exit ==
    /\ pc = "exited"
    /\ pc' = "idle"
    /\ args' = NoArgs /\ parsed' = NoArgs /\ call' = Idle(<<>>) /\ keyID' = <<>>
    /\ conn' = 0 /\ httpLog' = <<>> /\ tlsLog' = <<>> /\ bodies' = <<>>
    /\ apiLog' = <<>> /\ saves' = 0 /\ result' = NoResult
    /\ before' = servers
    /\ UNCHANGED <<servers, txt, inp, out>>

\* MustParse once every typed option is decoded: the first failure ends the
\* process, else args holds the values
Decoded(url, cert, port, method, limit) ==
    IF {url.err, cert.err, port.err, method.err, limit.err} # {""}
    THEN /\ \E e \in {url.err, cert.err, port.err, method.err, limit.err} \ {""} :
              result' = Exited(ExitParser, Err("validation", e))
         /\ pc' = "exited"
         /\ UNCHANGED parsed
    ELSE /\ parsed' = [cmd |-> args.cmd, name |-> args.name, url |-> url.url,
                       cert |-> cert.hash, server |-> args.server,
                       keyName |-> args.keyName.text, method |-> method.method,
                       port |-> port.number, dataLimit |-> limit.bytes,
                       keyID |-> args.keyID.text, newName |-> args.newName.text,
                       removeLimit |-> args.removeLimit, json |-> args.json]
         /\ pc' = "validate"
         /\ UNCHANGED result

\* arg.MustParse(&args): each typed option given on the command line is
\* decoded by its UnmarshalText; an option left out keeps its zero value
MustParse ==
    /\ pc = "parse"
    /\ \E validMethods \in RangeOrders :
       Decoded(IF args.url.given THEN ServerURLUnmarshalText(<<>>, args.url.text)
               ELSE [err |-> "", url |-> <<>>],
               IF args.cert.given THEN CertSHA256UnmarshalText(<<>>, args.cert.text)
               ELSE [err |-> "", hash |-> <<>>],
               IF args.port.given THEN PortUnmarshalText(0, args.port.text)
               ELSE [err |-> "", number |-> 0],
               IF args.method.given
               THEN EncryptionMethodUnmarshalText(<<>>, args.method.text, validMethods)
               ELSE IF args.cmd = "keys create"          \* default:"aes-192-gcm"
               THEN EncryptionMethodUnmarshalText(<<>>, aes192gcm, validMethods)
               ELSE [err |-> "", valid |-> <<>>, method |-> <<>>],
               IF args.dataLimit.given
               THEN DataSizeUnmarshalText(Int64Zero, args.dataLimit.text)
               ELSE [err |-> "", got |-> <<>>, bytes |-> Int64Zero])
    /\ UNCHANGED <<servers, before, args, call, keyID, conn, httpLog, tlsLog, bodies,
                   apiLog, saves, txt, inp, out>>

\* validateArgs with the edit rule blind to --remove-limit
validateArgsNoRemoveLimit(a) ==
    IF a.cmd \in {"keys delete", "keys edit"} /\ a.keyID = <<>> /\ a.keyName = <<>>
    THEN "either --key-id or --key-name must be specified"
    ELSE IF a.cmd = "keys edit" /\ a.newName = <<>> /\ DataSizeString(a.dataLimit) = <<>>
    THEN "at least one of --new-name, --data-limit, or --remove-limit must be specified for edit operation"
    ELSE ""

\* validateArgs(args): "" when it returns nil
validateArgs(a) ==
    IF a.cmd = "keys delete" /\ a.keyID = <<>> /\ a.keyName = <<>>
    THEN "either --key-id or --key-name must be specified for delete operation"
    ELSE IF a.cmd = "keys edit" /\ a.keyID = <<>> /\ a.keyName = <<>>
    THEN "either --key-id or --key-name must be specified for edit operation"
    ELSE IF a.cmd = "keys edit" /\ a.newName = <<>>
            /\ DataSizeString(a.dataLimit) = <<>> /\ ~a.removeLimit
    THEN "at least one of --new-name, --data-limit, or --remove-limit must be specified for edit operation"
    ELSE ""

\* main after validateArgs returned err: parser.Fail on an error
Validated(err) ==
    IF err # ""
    THEN /\ result' = Exited(ExitParser, Err("validation", err))
         /\ pc' = "exited"
    ELSE /\ pc' = "handle"
         /\ UNCHANGED result

\* main: InitLogger, validateArgs, NewConfigManager
Validate ==
    /\ pc = "validate"
    /\ Validated(validateArgs(parsed))
    /\ UNCHANGED <<servers, before, args, parsed, call, keyID, conn, httpLog, tlsLog,
                   bodies, apiLog, saves, txt, inp, out>>

-----------------------------------------------------------------------------
(* The registry commands of internal/config. *)

\* the outermost handler of main: a non-nil error leaves with os.Exit(1)
Finish(err) ==
    /\ result' = IF err = NilErr THEN Exited(0, NilErr) ELSE Exited(ExitError, err)
    /\ pc' = "exited"

Panic ==
    /\ result' = [exit |-> ExitPanic, err |-> NilErr, panic |-> TRUE]
    /\ pc' = "exited"

ServerNotFound == Err("notfound", "server not found")

apiVars == <<call, keyID, conn, httpLog, tlsLog, bodies, apiLog>>

\* AddServer without the test for an entry of that name: the entry is replaced
AddServerOverwrite(name, url, certSha256) ==
    IF certSha256 = <<>>
    THEN /\ Finish(Err("validation", "certificate SHA256 is required"))
         /\ UNCHANGED <<servers, saves>>
    ELSE /\ servers' = [servers EXCEPT ![name] = Server(url, certSha256)]
         /\ saves' = saves + 1
         /\ Finish(NilErr)

\* (cm *ConfigManager) AddServer(name, url, certSha256), saveConfig included
AddServer(name, url, certSha256) ==
    IF servers[name].present
    THEN Finish(Err("conflict", "server already exists")) /\ UNCHANGED <<servers, saves>>
    ELSE IF certSha256 = <<>>
    THEN /\ Finish(Err("validation", "certificate SHA256 is required"))
         /\ UNCHANGED <<servers, saves>>
    ELSE /\ servers' = [servers EXCEPT ![name] = Server(url, certSha256)]
         /\ saves' = saves + 1
         /\ Finish(NilErr)

\* handleServersCommand, cmd.Add: AddServer with the decoded URL and hash
ConfigManager_AddServer ==
    /\ pc = "handle" /\ parsed.cmd = "servers add"
    /\ AddServer(parsed.name, parsed.url, parsed.cert)
    /\ UNCHANGED <<before, args, parsed, txt, inp, out>> /\ UNCHANGED apiVars

\* json.Unmarshal([]byte(jsonInput), &serverData): [err, APIURL, CertSha256]
jsonUnmarshal(jsonInput) ==
    IF jsonInput.kind # "object"
    THEN [err |-> "invalid JSON format", APIURL |-> <<>>, CertSha256 |-> <<>>]
    ELSE [err |-> "", APIURL |-> jsonInput.apiUrl, CertSha256 |-> jsonInput.certSha256]

\* AddServerFromJSON once the input is unmarshalled
AddServerData(serverName, serverData) ==
    IF serverData.err # ""
    THEN Finish(Err("validation", serverData.err)) /\ UNCHANGED <<servers, saves>>
    ELSE IF serverData.APIURL = <<>>
    THEN Finish(Err("validation", "apiUrl is required in JSON")) /\ UNCHANGED <<servers, saves>>
    ELSE IF serverData.CertSha256 = <<>>
    THEN /\ Finish(Err("validation", "certSha256 is required in JSON"))
         /\ UNCHANGED <<servers, saves>>
    ELSE AddServer(serverName, serverData.APIURL, serverData.CertSha256)

\* (cm *ConfigManager) AddServerFromJSON(serverName, jsonInput)
ConfigManager_AddServerFromJSON ==
    /\ pc = "handle" /\ parsed.cmd = "servers add-json"
    /\ AddServerData(parsed.name, jsonUnmarshal(parsed.json))
    /\ UNCHANGED <<before, args, parsed, txt, inp, out>> /\ UNCHANGED apiVars

\* UpdateServer without the test of url against "": the URL is always written
UpdateServerAlways(name, url) ==
    IF ~servers[name].present
    THEN Finish(ServerNotFound) /\ UNCHANGED <<servers, saves>>
    ELSE /\ servers' = [servers EXCEPT ![name].URL = url]
         /\ saves' = saves + 1
         /\ Finish(NilErr)

\* (cm *ConfigManager) UpdateServer(name, url), saveConfig included
UpdateServer(name, url) ==
    IF ~servers[name].present
    THEN Finish(ServerNotFound) /\ UNCHANGED <<servers, saves>>
    ELSE /\ servers' = IF url # <<>>
                       THEN [servers EXCEPT ![name].URL = url]
                       ELSE servers
         /\ saves' = saves + 1
         /\ Finish(NilErr)

\* handleServersCommand, cmd.Update: UpdateServer with the decoded URL
ConfigManager_UpdateServer ==
    /\ pc = "handle" /\ parsed.cmd = "servers update"
    /\ UpdateServer(parsed.name, parsed.url)
    /\ UNCHANGED <<before, args, parsed, txt, inp, out>> /\ UNCHANGED apiVars

\* (cm *ConfigManager) DeleteServer(name)
ConfigManager_DeleteServer ==
    /\ pc = "handle" /\ parsed.cmd = "servers delete"
    /\ IF ~servers[parsed.name].present
       THEN Finish(ServerNotFound) /\ UNCHANGED <<servers, saves>>
       ELSE /\ servers' = [servers EXCEPT ![parsed.name] = NoServer]
            /\ saves' = saves + 1
            /\ Finish(NilErr)
    /\ UNCHANGED <<before, args, parsed, txt, inp, out>> /\ UNCHANGED apiVars

-----------------------------------------------------------------------------
(* internal/api: the pinned transport and the API operations. *)

StatusOK == 200
StatusCreated == 201
StatusNoContent == 204

\* the statuses a peer answers with besides the success status of the operation
Statuses == {StatusOK, StatusNoContent, 404}

\* hex.EncodeToString(sha256.Sum256(cert)) of the certificates a peer may
\* present, two digits standing for the sixty-four
sha256Hex(cert) == IF cert = "c1" THEN <<"a","b">> ELSE <<"c","d">>

PeerChains == {<<>>, <<"c1">>, <<"c2">>, <<"c2", "c1">>}

\* the VerifyPeerCertificate callback of NewAPIClient(certSha256) with the
\* check of the digest against the fingerprint in the case it was written in
VerifyPeerCertificateExact(rawCerts, certSha256) ==
    IF Len(rawCerts) = 0 THEN "no certificates provided"
    ELSE IF sha256Hex(rawCerts[1]) # certSha256 THEN "certificate SHA256 mismatch"
    ELSE ""

\* the VerifyPeerCertificate callback with no check when no fingerprint is
\* expected
VerifyPeerCertificateIfPinned(rawCerts, certSha256) ==
    IF Len(rawCerts) = 0 THEN "no certificates provided"
    ELSE IF certSha256 # <<>> /\ ToUpper(sha256Hex(rawCerts[1])) # ToUpper(certSha256)
    THEN "certificate SHA256 mismatch"
    ELSE ""

\* the VerifyPeerCertificate callback of NewAPIClient(certSha256): "" is nil
VerifyPeerCertificate(rawCerts, certSha256) ==
    IF Len(rawCerts) = 0 THEN "no certificates provided"
    ELSE LET calculatedSha256 == ToUpper(sha256Hex(rawCerts[1]))
         IN  IF calculatedSha256 # ToUpper(certSha256)
             THEN "certificate SHA256 mismatch"
             ELSE ""

\* the key ID put into the path as it is
PathEscapeNone(s) == s

\* url.PathEscape on the characters that occur in key IDs
RECURSIVE PathEscape(_)
PathEscape(s) ==
    IF s = <<>> THEN <<>>
    ELSE LET c == Head(s)
             e == IF c = "/" THEN <<"%","2","F">>
                  ELSE IF c = " " THEN <<"%","2","0">>
                  ELSE IF c = "?" THEN <<"%","3","F">>
                  ELSE IF c = "#" THEN <<"%","2","3">>
                  ELSE IF c = "%" THEN <<"%","2","5">>
                  ELSE <<c>>
         IN  e \o PathEscape(Tail(s))

\* an API operation builds its request and hands it to api.client
StartCall(op, url, pin, method, path, id, body) ==
    /\ call' = [op |-> op, url |-> url, pin |-> pin, method |-> method, path |-> path,
                id |-> id, body |-> body, resp |-> NoResp, err |-> NilErr]
    /\ pc' = "dial"

\* the keys a server may list
MaxKeys == 2
\* an access key as the JSON object of a response body
Key(id, name) == [id |-> id, name |-> name, password |-> <<"p", "w">> \o id,
                  port |-> 8000 + Len(id), method |-> aes192gcm,
                  accessUrl |-> <<"s", "s", ":", "/", "/">> \o id]
Keys == {Key(<<"1">>, keyA), Key(<<"2">>, keyB), Key(<<"3">>, keyB), Key(<<>>, keyB)}
KeyLists == UNION {[1..n -> Keys] : n \in 0..MaxKeys}

\* the JSON object a server answers GET /server, GET /metrics/transfer and
\* POST /access-keys with
ServerDocument == [name |-> <<"o">>, serverId |-> <<"i", "d">>, metricsEnabled |-> TRUE,
                   version |-> <<"1">>, portForNewAccessKeys |-> 8000,
                   hostnameForAccessKeys |-> <<"h">>]
MetricsDocument == [bytesTransferredByUserId |-> [i \in {<<"1">>, <<"2">>} |-> 1000 * Len(i) + 24]]
Document(op) == IF op = "GetServerInfo" THEN ServerDocument
                ELSE IF op = "GetTransferMetrics" THEN MetricsDocument
                ELSE Key(<<"9">>, newN)

\* the AccessKey without its id: the name decoded into ID as well
decodeAccessKeyNameAsID(o) ==
    [ID |-> o.name, Name |-> o.name, Password |-> o.password, Port |-> o.port,
     Method |-> o.method, AccessURL |-> o.accessUrl]

\* json.Decode into an AccessKey, a field for each json tag
decodeAccessKey(o) ==
    [ID |-> o.id, Name |-> o.name, Password |-> o.password, Port |-> o.port,
     Method |-> o.method, AccessURL |-> o.accessUrl]

\* json.Decode into an OutlineServer and into a TransferMetrics
decodeOutlineServer(o) ==
    [Name |-> o.name, ServerID |-> o.serverId, MetricsEnabled |-> o.metricsEnabled,
     Version |-> o.version, PortForNewAccessKeys |-> o.portForNewAccessKeys,
     HostnameForAccessKeys |-> o.hostnameForAccessKeys]
decodeTransferMetrics(o) == [BytesTransferredByUserId |-> o.bytesTransferredByUserId]

\* what an operation decodes from the objects of a body; the operations
\* answered with 204 read no body
Decode(op, doc) ==
    IF op \in {"ListAccessKeys", "CreateAccessKey"}
    THEN [i \in 1..Len(doc) |-> decodeAccessKey(doc[i])]
    ELSE IF op = "GetServerInfo" THEN [i \in 1..Len(doc) |-> decodeOutlineServer(doc[i])]
    ELSE IF op = "GetTransferMetrics"
    THEN [i \in 1..Len(doc) |-> decodeTransferMetrics(doc[i])]
    ELSE <<>>

successStatus(op) ==
    IF op \in {"GetServerInfo", "ListAccessKeys", "GetTransferMetrics"} THEN StatusOK
    ELSE IF op = "CreateAccessKey" THEN StatusCreated
    ELSE StatusNoContent

\* what a peer may answer to the request of an operation
Responses(op) ==
         {Resp(s, "text", "not found", <<>>) : s \in Statuses \ {successStatus(op)}}
    \cup (IF op = "ListAccessKeys"
          THEN {Resp(StatusOK, "json", "", l) : l \in KeyLists}
               \cup {Resp(StatusOK, "garbage", "", <<>>)}
          ELSE IF op \in {"GetServerInfo", "GetTransferMetrics", "CreateAccessKey"}
          THEN {Resp(successStatus(op), "json", "", <<Document(op)>>),
                Resp(successStatus(op), "garbage", "", <<>>)}
          ELSE {Resp(StatusNoContent, "empty", "", <<>>)})

\* http.Transport gets a connection for the request: an idle one of this
\* client, or a new one, over TLS (with the handshake and its
\* VerifyPeerCertificate) when the scheme is https
Dial ==
    /\ pc = "dial"
    /\ \/ /\ conn # 0
          /\ pc' = "send"
          /\ UNCHANGED <<call, conn, tlsLog>>
       \/ /\ call' = [call EXCEPT !.err = Err("transport", "connection refused")]
          /\ conn' = 0
          /\ pc' = "return"
          /\ UNCHANGED tlsLog
       \/ /\ ToLower(urlParse(call.url).scheme) = <<"h","t","t","p">>
          /\ conn' = -1
          /\ pc' = "send"
          /\ UNCHANGED <<call, tlsLog>>
       \/ /\ ToLower(urlParse(call.url).scheme) = <<"h","t","t","p","s">>
          /\ \E chain \in PeerChains :
               LET v == VerifyPeerCertificate(chain, call.pin)
               IN  /\ tlsLog' = Append(tlsLog, [certs |-> chain, pin |-> call.pin, err |-> v,
                                             sent |-> Len(httpLog)])
                   /\ IF v = ""
                      THEN /\ conn' = Len(tlsLog) + 1
                           /\ pc' = "send"
                           /\ UNCHANGED call
                      ELSE /\ conn' = 0
                           /\ call' = [call EXCEPT !.err = Err("tls", v)]
                           /\ pc' = "return"
    /\ UNCHANGED <<servers, before, args, parsed, keyID, httpLog, bodies, apiLog, saves,
                   result, txt, inp, out>>

\* the value a field of a request body is sent with
FieldValue(body, f) == IF f = "name" THEN body.name
                       ELSE IF f = "method" THEN body.method
                       ELSE IF f = "port" THEN body.port
                       ELSE [bytes |-> body.limit.bytes]

\* json.Marshal of a CreateAccessKeyRequest whose tags have lost omitempty
MarshalNoOmitEmpty(body) ==
    [f \in (IF body.kind = "create" THEN {"name", "method", "port", "limit"}
            ELSE IF body.kind \in {"name", "limit"} THEN {body.kind} ELSE {}) |->
        FieldValue(body, f)]

\* json.Marshal of the request: a CreateAccessKeyRequest leaves out every
\* field that holds its zero value (omitempty; Limit is a nil pointer when
\* unset), the maps of the rename and of the data limit have their one key
Marshal(body) ==
    [f \in (IF body.kind = "create"
            THEN {g \in {"name", "method"} : FieldValue(body, g) # <<>>}
                 \cup {g \in {"port"} : body.port # 0}
                 \cup {g \in {"limit"} : body.limit.set}
            ELSE IF body.kind \in {"name", "limit"} THEN {body.kind} ELSE {}) |->
        FieldValue(body, f)]

\* the request goes out on the connection; the peer answers, or the
\* 30 s Timeout of the client ends the call without a response
RoundTrip ==
    /\ pc = "send"
    /\ httpLog' = Append(httpLog, [method |-> call.method, url |-> call.url,
                                   path |-> call.path, body |-> call.body,
                                   json |-> Marshal(call.body), hs |-> conn])
    /\ \/ \E r \in Responses(call.op) :
             /\ call' = [call EXCEPT !.resp = r]
             /\ bodies' = Append(bodies, [closed |-> 0])
             /\ UNCHANGED conn
       \/ /\ call' = [call EXCEPT !.err = Err("transport", "timeout")]
          /\ conn' = 0
          /\ UNCHANGED bodies
    /\ pc' = "return"
    /\ UNCHANGED <<servers, before, args, parsed, keyID, tlsLog, apiLog, saves, result,
                   txt, inp, out>>


\* closeResponseBody(resp) that leaves the body open
closeResponseBodySkipped(resp, bs) == bs

\* closeResponseBody(resp): bs are the bodies obtained so far, the last one
\* being that of resp
closeResponseBody(resp, bs) ==
    IF resp.present /\ Len(bs) > 0
    THEN [bs EXCEPT ![Len(bs)].closed = @ + 1]
    ELSE bs

\* The body shared by the API operations after the HTTP call: the error of
\* the call, the deferred close, the status check, the decoding.  A return
\* after the status check hands back the err variable of the HTTP call.
Complete(op, status, decodes) ==
    /\ LET err == call.err
           ret == IF err # NilErr
                  THEN [err |-> err, nil |-> TRUE, keys |-> <<>>]
                  ELSE IF call.resp.status # status
                  THEN [err |-> err, nil |-> TRUE, keys |-> <<>>]
                  ELSE IF decodes /\ call.resp.kind # "json"
                  THEN [err |-> Err("decode", "invalid JSON"), nil |-> TRUE, keys |-> <<>>]
                  ELSE [err |-> NilErr, nil |-> FALSE, keys |-> Decode(op, call.resp.keys)]
       IN  /\ apiLog' = Append(apiLog, [op |-> op, id |-> call.id, resp |-> call.resp,
                                        callErr |-> call.err, err |-> ret.err,
                                        nil |-> ret.nil, keys |-> ret.keys])
           /\ bodies' = IF err = NilErr THEN closeResponseBody(call.resp, bodies)
                        ELSE bodies
    /\ call' = Idle(call.pin)
    /\ pc' = "resume"
    /\ UNCHANGED <<servers, before, args, parsed, keyID, conn, httpLog, tlsLog, saves,
                   result, txt, inp, out>>

\* the API operations, from the return of their HTTP call on
APIClient_GetServerInfo ==
    /\ pc = "return" /\ call.op = "GetServerInfo"
    /\ Complete("GetServerInfo", StatusOK, TRUE)

APIClient_ListAccessKeys ==
    /\ pc = "return" /\ call.op = "ListAccessKeys"
    /\ Complete("ListAccessKeys", StatusOK, TRUE)

APIClient_CreateAccessKey ==
    /\ pc = "return" /\ call.op = "CreateAccessKey"
    /\ Complete("CreateAccessKey", StatusCreated, TRUE)

APIClient_DeleteAccessKey ==
    /\ pc = "return" /\ call.op = "DeleteAccessKey"
    /\ Complete("DeleteAccessKey", StatusNoContent, FALSE)

APIClient_GetTransferMetrics ==
    /\ pc = "return" /\ call.op = "GetTransferMetrics"
    /\ Complete("GetTransferMetrics", StatusOK, TRUE)

APIClient_RenameAccessKey ==
    /\ pc = "return" /\ call.op = "RenameAccessKey"
    /\ Complete("RenameAccessKey", StatusNoContent, FALSE)

APIClient_SetAccessKeyDataLimit ==
    /\ pc = "return" /\ call.op = "SetAccessKeyDataLimit"
    /\ Complete("SetAccessKeyDataLimit", StatusNoContent, FALSE)

APIClient_RemoveAccessKeyDataLimit ==
    /\ pc = "return" /\ call.op = "RemoveAccessKeyDataLimit"
    /\ Complete("RemoveAccessKeyDataLimit", StatusNoContent, FALSE)

-----------------------------------------------------------------------------
(* The commands of internal/config that talk to a server. *)

Path(res, id, tail) == [res |-> res, id |-> id, tail |-> tail]

\* getAPIClientForServer(serverName): the client is its pinned fingerprint
getAPIClientForServer(serverName) ==
    IF ~servers[serverName].present
    THEN [err |-> ServerNotFound, pin |-> <<>>]
    ELSE [err |-> NilErr, pin |-> servers[serverName].CertSha256]

Last == apiLog[Len(apiLog)]

End(err) == Finish(err) /\ UNCHANGED <<call, conn>>
EndPanic == Panic /\ UNCHANGED <<call, conn>>

\* the method and the path each operation of the client puts after serverURL
RequestLine(op, id) ==
    IF op = "GetServerInfo" THEN [method |-> "GET", path |-> Path("/server", <<>>, "")]
    ELSE IF op = "ListAccessKeys"
    THEN [method |-> "GET", path |-> Path("/access-keys", <<>>, "")]
    ELSE IF op = "CreateAccessKey"
    THEN [method |-> "POST", path |-> Path("/access-keys", <<>>, "")]
    ELSE IF op = "DeleteAccessKey"
    THEN [method |-> "DELETE", path |-> Path("/access-keys/", PathEscape(id), "")]
    ELSE IF op = "GetTransferMetrics"
    THEN [method |-> "GET", path |-> Path("/metrics/transfer", <<>>, "")]
    ELSE IF op = "RenameAccessKey"
    THEN [method |-> "PUT", path |-> Path("/access-keys/", PathEscape(id), "/name")]
    ELSE IF op = "SetAccessKeyDataLimit"
    THEN [method |-> "PUT", path |-> Path("/access-keys/", PathEscape(id), "/data-limit")]
    ELSE [method |-> "DELETE", path |-> Path("/access-keys/", PathEscape(id), "/data-limit")]

\* a call on the client of the handler (fresh: on a client just built)
Call(op, serverName, fresh, id, body) ==
    /\ StartCall(op, servers[serverName].URL,
                 IF fresh THEN getAPIClientForServer(serverName).pin ELSE call.pin,
                 RequestLine(op, id).method, RequestLine(op, id).path, id, body)
    /\ conn' = IF fresh THEN 0 ELSE conn
    /\ UNCHANGED result

\* a handler that goes on to its API call whether or not the server is there
LookupUnchecked(serverName) == NilErr

\* the first lines of every such handler: the lookup of the server and of
\* its client; "" when both are there
Lookup(serverName) ==
    IF ~servers[serverName].present THEN ServerNotFound
    ELSE getAPIClientForServer(serverName).err

handlerFrame == <<servers, before, args, parsed, httpLog, tlsLog, bodies, apiLog, saves,
                  txt, inp, out>>

\* (cm *ConfigManager) GetServer(name)
ConfigManager_GetServer ==
    /\ parsed.cmd = "servers get"
    /\ \/ /\ pc = "handle"
          /\ IF Lookup(parsed.name) # NilErr THEN End(Lookup(parsed.name))
             ELSE Call("GetServerInfo", parsed.name, TRUE, <<>>, NoBody)
       \/ /\ pc = "resume"
          /\ IF Last.err # NilErr THEN End(NilErr)       \* slog.Warn, return nil
             ELSE IF Last.nil THEN EndPanic              \* serverInfo.Name
             ELSE End(NilErr)
    /\ UNCHANGED keyID /\ UNCHANGED handlerFrame

\* (cm *ConfigManager) GetMetrics(serverName)
ConfigManager_GetMetrics ==
    /\ parsed.cmd = "servers metrics"
    /\ \/ /\ pc = "handle"
          /\ IF Lookup(parsed.server) # NilErr THEN End(Lookup(parsed.server))
             ELSE Call("GetTransferMetrics", parsed.server, TRUE, <<>>, NoBody)
       \/ /\ pc = "resume"
          /\ IF Last.err # NilErr THEN End(Last.err)
             ELSE IF Last.nil THEN EndPanic     \* metrics.BytesTransferredByUserId
             ELSE End(NilErr)
    /\ UNCHANGED keyID /\ UNCHANGED handlerFrame

\* (cm *ConfigManager) ListAccessKeys(serverName)
ConfigManager_ListAccessKeys ==
    /\ parsed.cmd = "keys list"
    /\ \/ /\ pc = "handle"
          /\ IF Lookup(parsed.server) # NilErr THEN End(Lookup(parsed.server))
             ELSE Call("ListAccessKeys", parsed.server, TRUE, <<>>, NoBody)
       \/ /\ pc = "resume"
          /\ End(Last.err)
    /\ UNCHANGED keyID /\ UNCHANGED handlerFrame

IsPositive(b) == ~b.neg /\ b.mag # <<>>

\* CreateAccessKey once the server is found and dataLimitStr is parsed to d
CreateRequest(serverName, d) ==
    IF d.err # "" THEN End(Err("validation", d.err))
    ELSE IF getAPIClientForServer(serverName).err # NilErr
    THEN End(getAPIClientForServer(serverName).err)
    ELSE Call("CreateAccessKey", serverName, TRUE, <<>>,
              [kind |-> "create", name |-> parsed.keyName, method |-> parsed.method,
               port |-> IF parsed.port > 0 THEN parsed.port ELSE 0,
               limit |-> IF IsPositive(d.bytes) THEN [set |-> TRUE, bytes |-> d.bytes]
                         ELSE [set |-> FALSE, bytes |-> Int64Zero]])

\* CreateAccessKey from the parsing of the data limit on
CreateParsed(serverName, dataLimitStr) ==
    CreateRequest(serverName,
                  IF dataLimitStr # <<>> THEN ParseDataSize(dataLimitStr)
                  ELSE [err |-> "", got |-> <<>>, bytes |-> Int64Zero])

\* (cm *ConfigManager) CreateAccessKey(serverName, keyName, method, port,
\* dataLimitStr), called with DataLimit.String() for dataLimitStr
ConfigManager_CreateAccessKey ==
    /\ parsed.cmd = "keys create"
    /\ \/ /\ pc = "handle"
          /\ IF ~servers[parsed.server].present THEN End(ServerNotFound)
             ELSE CreateParsed(parsed.server, DataSizeString(parsed.dataLimit))
       \/ /\ pc = "resume"
          /\ IF Last.err # NilErr THEN End(Last.err)
             ELSE IF Last.nil THEN EndPanic              \* accessKey.ID
             ELSE End(NilErr)
    /\ UNCHANGED keyID /\ UNCHANGED handlerFrame

\* the body of (cm *ConfigManager) DeleteAccessKey(serverName, keyID) up to
\* its call of the API
DeleteAccessKeyCall(serverName, id) ==
    IF Lookup(serverName) # NilErr THEN End(Lookup(serverName))
    ELSE Call("DeleteAccessKey", serverName, TRUE, id, NoBody)

\* (cm *ConfigManager) DeleteAccessKey(serverName, keyID), the handler of
\* 'keys delete' without --key-name
ConfigManager_DeleteAccessKey ==
    /\ parsed.cmd = "keys delete" /\ parsed.keyName = <<>>
    /\ \/ /\ pc = "handle"
          /\ DeleteAccessKeyCall(parsed.server, parsed.keyID)
          /\ keyID' = parsed.keyID
       \/ /\ pc = "resume"
          /\ End(Last.err)
          /\ UNCHANGED keyID
    /\ UNCHANGED handlerFrame

\* the loop over accessKeys without its break: the last key named name
firstNamedNoBreak(accessKeys, name) ==
    LET hits == {i \in 1..Len(accessKeys) : accessKeys[i].Name = name}
    IN  IF hits = {} THEN 0 ELSE CHOOSE i \in hits : \A j \in hits : i >= j

\* the loop over accessKeys: the index of the first key named name, 0 if none
firstNamed(accessKeys, name) ==
    LET hits == {i \in 1..Len(accessKeys) : accessKeys[i].Name = name}
    IN  IF hits = {} THEN 0 ELSE CHOOSE i \in hits : \A j \in hits : i <= j

KeyNotFound == Err("notfound", "access key not found")

\* (cm *ConfigManager) DeleteAccessKeyByName(serverName, keyName), its call
\* of cm.DeleteAccessKey included
ConfigManager_DeleteAccessKeyByName ==
    /\ parsed.cmd = "keys delete" /\ parsed.keyName # <<>>
    /\ \/ /\ pc = "handle"
          /\ IF Lookup(parsed.server) # NilErr THEN End(Lookup(parsed.server))
             ELSE Call("ListAccessKeys", parsed.server, TRUE, <<>>, NoBody)
          /\ UNCHANGED keyID
       \/ /\ pc = "resume" /\ Last.op = "ListAccessKeys"
          /\ LET i  == firstNamed(Last.keys, parsed.keyName)
                 id == IF i = 0 THEN <<>> ELSE Last.keys[i].ID
             IN  IF Last.err # NilErr THEN End(Last.err) /\ UNCHANGED keyID
                 ELSE IF id = <<>> THEN End(KeyNotFound) /\ UNCHANGED keyID
                 ELSE DeleteAccessKeyCall(parsed.server, id) /\ keyID' = id
       \/ /\ pc = "resume" /\ Last.op = "DeleteAccessKey"
          /\ End(Last.err)
          /\ UNCHANGED keyID
    /\ UNCHANGED handlerFrame

\* EditAccessKey once dataLimitStr is parsed to d
EditSetLimit(serverName, id, d) ==
    IF d.err # "" THEN End(Err("validation", d.err))
    ELSE Call("SetAccessKeyDataLimit", serverName, FALSE, id,
              [NoBody EXCEPT !.kind = "limit",
                             !.limit = [set |-> TRUE, bytes |-> d.bytes]])

\* EditAccessKey from "Handle data limit changes" on
EditLimitStr(serverName, id, dataLimitStr) ==
    IF parsed.removeLimit
    THEN Call("RemoveAccessKeyDataLimit", serverName, FALSE, id, NoBody)
    ELSE IF dataLimitStr # <<>>
    THEN EditSetLimit(serverName, id, ParseDataSize(dataLimitStr))
    ELSE End(NilErr)

\* the same, with the dataLimitStr that handleKeysCommand passed
EditLimit(serverName, id) ==
    EditLimitStr(serverName, id, DataSizeString(parsed.dataLimit))

\* "Find key by name" with the given ID kept when no key has the name
findByNameOrID(accessKeys, keyName, id) ==
    IF firstNamed(accessKeys, keyName) = 0
    THEN [found |-> TRUE, actualKeyID |-> id]
    ELSE [found |-> TRUE, actualKeyID |-> accessKeys[firstNamed(accessKeys, keyName)].ID]

\* EditAccessKey, "Find key by name": actualKeyID starts as keyID and is
\* overwritten by the ID of the first key of that name, which sets found
findByName(accessKeys, keyName, id) ==
    IF firstNamed(accessKeys, keyName) = 0
    THEN [found |-> FALSE, actualKeyID |-> id]
    ELSE [found |-> TRUE, actualKeyID |-> accessKeys[firstNamed(accessKeys, keyName)].ID]

\* EditAccessKey from the check of actualKeyID on
EditResolved(serverName, actualKeyID) ==
    IF actualKeyID = <<>>
    THEN End(Err("validation", "either --key-id or --key-name must be specified"))
    ELSE IF parsed.newName # <<>>
    THEN Call("RenameAccessKey", serverName, FALSE, actualKeyID,
              [NoBody EXCEPT !.kind = "name", !.name = parsed.newName])
    ELSE EditLimit(serverName, actualKeyID)

\* (cm *ConfigManager) EditAccessKey(serverName, keyID, keyName, newName,
\* dataLimitStr, removeLimit), called with DataLimit.String() for dataLimitStr
ConfigManager_EditAccessKey ==
    /\ parsed.cmd = "keys edit"
    /\ \/ /\ pc = "handle"
          /\ IF Lookup(parsed.server) # NilErr
             THEN End(Lookup(parsed.server)) /\ UNCHANGED keyID
             ELSE IF parsed.keyName # <<>>
             THEN /\ Call("ListAccessKeys", parsed.server, TRUE, <<>>, NoBody)
                  /\ keyID' = parsed.keyID
             ELSE /\ EditResolved(parsed.server, parsed.keyID)
                  /\ keyID' = parsed.keyID
       \/ /\ pc = "resume" /\ Last.op = "ListAccessKeys"
          /\ LET r == findByName(Last.keys, parsed.keyName, parsed.keyID)
             IN  IF Last.err # NilErr THEN End(Last.err) /\ UNCHANGED keyID
                 ELSE IF ~r.found THEN End(KeyNotFound) /\ UNCHANGED keyID
                 ELSE /\ EditResolved(parsed.server, r.actualKeyID)
                      /\ keyID' = r.actualKeyID
       \/ /\ pc = "resume" /\ Last.op = "RenameAccessKey"
          /\ IF Last.err # NilErr THEN End(Last.err)
             ELSE EditLimit(parsed.server, keyID)
          /\ UNCHANGED keyID
       \/ /\ pc = "resume"
          /\ Last.op \in {"RemoveAccessKeyDataLimit", "SetAccessKeyDataLimit"}
          /\ End(Last.err)
          /\ UNCHANGED keyID
    /\ UNCHANGED handlerFrame

Next ==
    \/ Invoke \/ MustParse \/ Validate \/ Exit
    \/ ConfigManager_AddServer \/ ConfigManager_UpdateServer \/ ConfigManager_DeleteServer
    \/ ConfigManager_GetServer \/ ConfigManager_GetMetrics
    \/ ConfigManager_ListAccessKeys \/ ConfigManager_CreateAccessKey
    \/ ConfigManager_DeleteAccessKey \/ ConfigManager_DeleteAccessKeyByName
    \/ ConfigManager_EditAccessKey
    \/ Dial \/ RoundTrip
    \/ APIClient_GetServerInfo \/ APIClient_ListAccessKeys \/ APIClient_CreateAccessKey
    \/ APIClient_DeleteAccessKey \/ APIClient_GetTransferMetrics
    \/ APIClient_RenameAccessKey \/ APIClient_SetAccessKeyDataLimit
    \/ APIClient_RemoveAccessKeyDataLimit

Spec == Init /\ [][Next]_vars

-----------------------------------------------------------------------------
(* Properties of a run of the command line. *)

\* equal up to the case of the letters
EqualFold(a, b) ==
    /\ Len(a) = Len(b)
    /\ \A i \in 1..Len(a) : LowerChar(a[i]) = LowerChar(b[i])

\* the handshake h presented a first certificate whose digest is the pin
Pinned(h) == Len(h.certs) > 0 /\ EqualFold(sha256Hex(h.certs[1]), h.pin)

\* C1: a TLS handshake of a client built by NewAPIClient(F) succeeds when the
\* hex SHA-256 of the first certificate of the peer equals F up to case, and
\* fails with the certificate-mismatch error when that digest differs; every
\* HTTP request travels on a connection whose handshake succeeded, and no
\* request is sent once a handshake has failed.
C1_PinnedHandshake ==
    /\ \A i \in 1..Len(tlsLog) :
         LET h == tlsLog[i]
         IN  /\ Pinned(h) => h.err = ""
             /\ (Len(h.certs) > 0 /\ ~Pinned(h)) => h.err = "certificate SHA256 mismatch"
             /\ h.err # "" => Len(httpLog) = h.sent
    /\ \A j \in 1..Len(httpLog) :
         httpLog[j].hs > 0 =>
            /\ httpLog[j].hs <= Len(tlsLog)
            /\ tlsLog[httpLog[j].hs].err = ""
    /\ (pc = "return" /\ Len(tlsLog) > 0 /\ tlsLog[Len(tlsLog)].err # "")
         => (~call.resp.present /\ call.err = Err("tls", tlsLog[Len(tlsLog)].err))

\* a run whose first handshake matched the pin in another case and carried a
\* request, and whose second handshake met another certificate and carried none
C1_Witness ==
    /\ pc = "exited"
    /\ Len(tlsLog) = 2
    /\ tlsLog[1].err = "" /\ sha256Hex(tlsLog[1].certs[1]) # tlsLog[1].pin
    /\ tlsLog[2].err = "certificate SHA256 mismatch"
    /\ Len(httpLog) = 1

\* the API calls of the run that got a response with another status than the
\* success status of the operation
BadStatus(e) == e.resp.present /\ e.resp.status # successStatus(e.op)

\* C2: every API operation answered with a status other than its success
\* status (200, 200, 201, 204, 204, 204, 204, 200) returns a non-nil error.
C2_StatusError ==
    \A i \in 1..Len(apiLog) : BadStatus(apiLog[i]) => apiLog[i].err # NilErr

ByName == parsed.cmd = "keys delete" /\ parsed.keyName # <<>>

\* the run listed the keys of the server and got them
Listed ==
    /\ Len(apiLog) >= 1
    /\ apiLog[1].op = "ListAccessKeys"
    /\ apiLog[1].resp.present /\ apiLog[1].resp.status = StatusOK
    /\ apiLog[1].resp.kind = "json"

ListedKeys == [i \in 1..Len(apiLog[1].resp.keys) |->
                  [ID |-> apiLog[1].resp.keys[i].id, Name |-> apiLog[1].resp.keys[i].name]]
Matches == {i \in 1..Len(ListedKeys) : ListedKeys[i].Name = parsed.keyName}
FirstMatch == CHOOSE i \in Matches : \A j \in Matches : i <= j
DeleteCalls == {j \in 1..Len(apiLog) : apiLog[j].op = "DeleteAccessKey"}
DeleteRequests == {j \in 1..Len(httpLog) : httpLog[j].method = "DELETE"}

OneDeleteFor(id) ==
    /\ Cardinality(DeleteCalls) = 1
    /\ \A j \in DeleteCalls : apiLog[j].id = id
    /\ Cardinality(DeleteRequests) <= 1
    /\ \A j \in DeleteRequests : httpLog[j].path = Path("/access-keys/", PathEscape(id), "")

NoDelete ==
    /\ result.err = KeyNotFound
    /\ DeleteCalls = {} /\ DeleteRequests = {}

\* a delete by name calls DeleteAccessKey only after its list call succeeded
ListFirst ==
    ByName => /\ Len(apiLog) >= 1 => apiLog[1].op = "ListAccessKeys"
              /\ DeleteCalls # {} => Listed

C4_ValidationFirst ==
    (pc = "exited" /\ result.err.class = "validation") =>
        /\ httpLog = <<>> /\ tlsLog = <<>>
        /\ saves = 0 /\ servers = before

\* a step of the API call e failed: the HTTP call, the status, the decoding
Decodes(op) ==
    op \in {"GetServerInfo", "ListAccessKeys", "CreateAccessKey", "GetTransferMetrics"}
StepFailed(e) ==
    \/ e.callErr # NilErr
    \/ BadStatus(e)
    \/ (e.resp.present /\ Decodes(e.op) /\ e.resp.kind # "json")

\* C5: when a step of a command failed, its handler returned a non-nil error
\* and the process left with a non-zero code.
C5_NoSwallowedError ==
    (pc = "exited" /\ \E i \in 1..Len(apiLog) : StepFailed(apiLog[i])) =>
        (result.err # NilErr /\ result.exit # 0)

InFlight == pc = "return" /\ call.resp.present
Answered == {j \in 1..Len(apiLog) : apiLog[j].resp.present}

\* C6: the body of every response an API operation obtained is closed exactly
\* once when the operation has returned, whatever its outcome, and is open
\* while the operation holds it; a failed HTTP call has no response.
C6_ClosedOnce ==
    /\ \A i \in 1..Len(bodies) :
         bodies[i].closed = IF InFlight /\ i = Len(bodies) THEN 0 ELSE 1
    /\ Len(bodies) = Cardinality(Answered) + IF InFlight THEN 1 ELSE 0
    /\ \A j \in 1..Len(apiLog) : apiLog[j].callErr # NilErr => ~apiLog[j].resp.present

\* a run with a decoded response, then an unexpected status, both closed
C6_Witness ==
    /\ pc = "exited"
    /\ Len(apiLog) = 2 /\ Len(bodies) = 2
    /\ ~StepFailed(apiLog[1]) /\ BadStatus(apiLog[2])
    /\ bodies[1].closed = 1 /\ bodies[2].closed = 1

-----------------------------------------------------------------------------
(* The typed values of the command line, exercised one call at a time: a text
   and a receiver are fixed, and every UnmarshalText, ParseDataSize and the
   two DataSize formatters may be called on them, up to MaxCalls calls in a
   row.  Each call appends what it returned and what the receiver holds
   afterwards. *)

MaxCalls == 2

ValueTexts == {
    <<>>,
    <<" ">>,
    <<"1">>,
    <<"8","0">>,
    <<" ","8","0","8","0"," ">>,
    <<"6","5","5","3","5">>,
    <<"6","5","5","3","6">>,
    <<"0">>,
    <<"-","1">>,
    <<"+","8","0">>,
    <<"0","8","0">>,
    <<"8","0","8","0",".","5">>,
    <<"x","1">>,
    <<"a","b">>,
    <<"A","B">>,
    <<"a","B">>,
    <<"a","b","c">>,
    <<"a","g">>,
    <<" ","a","b"," ">>,
    <<"1","2","a","b">>,
    <<"h","t","t","p","s",":","/","/","h","/","s">>,
    <<"h","t","t","p",":","/","/","h",":","8","0","/","s">>,
    <<"h","t","t","p","s",":","/","/","h","/","s","?","q","=","v">>,
    <<" ","h","t","t","p","s",":","/","/","h","/","s"," ">>,
    <<"h","/","s">>,
    <<"h","t","t","p","s",":","/","/","/","s">>,
    <<"n","o","t","-","a","-","u","r","l">>,
    <<"h","t","t","p","s",":","/","/">>,
    <<"H","T","T","P","S",":","/","/","h","/","s">>,
    <<"h","t","t","p","s",":","/","/","h">>,
    <<"/","/","h","/","s">>,
    <<"m","a","i","l","t","o",":","a">>,
    <<"h","t","t","p","s",":","/","/","h",":","x","/","s">>,
    <<"a","e","s","-","2","5","6","-","g","c","m">>,
    <<"a","e","s","-","1","9","2","-","g","c","m">>,
    <<"a","e","s","-","1","2","8","-","g","c","m">>,
    <<"c","h","a","c","h","a","2","0","-","p","o","l","y","1","3","0","5">>,
    <<"A","E","S","-","2","5","6","-","G","C","M">>,
    <<" ","a","e","s","-","2","5","6","-","g","c","m"," ">>,
    <<"r","c","4">>,
    <<"1","K","B">>,
    <<" ","1","K","B"," ">>,
    <<"1","Z","B">>,
    <<"1",".","5"," ","M","B">>,
    <<"1","0","E","B">>}

\* a receiver as declared (zero values) and one that holds earlier values
ZeroValues == [port |-> 0, hash |-> <<>>, url |-> <<>>, method |-> <<>>,
               bytes |-> Int64Zero]
SetValues == [port |-> 443, hash |-> <<"0","0">>, url |-> <<"f","t","p",":","/","/","o">>,
              method |-> chacha20poly1305, bytes |-> [neg |-> FALSE, mag |-> Big(5)]]
Receivers == {ZeroValues, SetValues}

\* DataSize.MarshalText(): the text ("" for 0); its error is always nil
DataSizeMarshalText(b) == IF b.mag = <<>> THEN <<>> ELSE HumanizeBytes(ToUint64(b))

InitValues == CliOff /\ txt \in ValueTexts /\ inp \in Receivers /\ out = <<>>

\* the receiver as the calls so far have left it
Cur == IF out = <<>> THEN inp ELSE out[Len(out)].recv

\* one more call on record: its error ("" for nil), the text its message
\* ends with, the value it returned and the receiver afterwards
Called(fn, err, msg, ret, recv) ==
    /\ Len(out) < MaxCalls
    /\ out' = Append(out, [fn |-> fn, err |-> err, msg |-> msg, ret |-> ret,
                           recv |-> recv])
    /\ UNCHANGED <<txt, inp>> /\ UNCHANGED cliVars

ParsedSize(fn, r, recv) == Called(fn, r.err, r.got, r.bytes, recv)

\* n, err := ParseDataSize(txt)
ValueParseDataSize ==
    /\ pc = "off"
    /\ ParsedSize("ParseDataSize", ParseDataSize(txt), Cur)

StoredSize(r) == Called("DataSize.UnmarshalText", r.err, r.got, <<>>,
                        [Cur EXCEPT !.bytes = r.bytes])

\* err := d.UnmarshalText([]byte(txt))
ValueDataSizeUnmarshalText ==
    /\ pc = "off"
    /\ StoredSize(DataSizeUnmarshalText(Cur.bytes, txt))

\* s := d.String()
ValueDataSizeString ==
    /\ pc = "off"
    /\ Called("DataSize.String", "", <<>>, DataSizeString(Cur.bytes), Cur)

\* b, err := d.MarshalText()
ValueDataSizeMarshalText ==
    /\ pc = "off"
    /\ Called("DataSize.MarshalText", "", <<>>, DataSizeMarshalText(Cur.bytes), Cur)

StoredURL(r) == Called("ServerURL.UnmarshalText", r.err, <<>>, <<>>,
                       [Cur EXCEPT !.url = r.url])

\* err := s.UnmarshalText([]byte(txt))
ValueServerURLUnmarshalText ==
    /\ pc = "off"
    /\ StoredURL(ServerURLUnmarshalText(Cur.url, txt))

StoredHash(r) == Called("CertSHA256.UnmarshalText", r.err, <<>>, <<>>,
                        [Cur EXCEPT !.hash = r.hash])

\* err := c.UnmarshalText([]byte(txt))
ValueCertSHA256UnmarshalText ==
    /\ pc = "off"
    /\ StoredHash(CertSHA256UnmarshalText(Cur.hash, txt))

StoredPort(r) == Called("Port.UnmarshalText", r.err, <<>>, <<>>,
                        [Cur EXCEPT !.port = r.number])

\* err := p.UnmarshalText([]byte(txt))
ValuePortUnmarshalText ==
    /\ pc = "off"
    /\ StoredPort(PortUnmarshalText(Cur.port, txt))

StoredMethod(r) == Called("EncryptionMethod.UnmarshalText", r.err, r.valid, <<>>,
                          [Cur EXCEPT !.method = r.method])

\* err := e.UnmarshalText([]byte(txt)); the range over the map of valid
\* methods comes out in an order of the runtime's choosing
ValueEncryptionMethodUnmarshalText ==
    /\ pc = "off"
    /\ \E validMethods \in RangeOrders :
          StoredMethod(EncryptionMethodUnmarshalText(Cur.method, txt, validMethods))

NextValues ==
    \/ ValueParseDataSize
    \/ ValueDataSizeUnmarshalText
    \/ ValueDataSizeString
    \/ ValueDataSizeMarshalText
    \/ ValueServerURLUnmarshalText
    \/ ValueCertSHA256UnmarshalText
    \/ ValuePortUnmarshalText
    \/ ValueEncryptionMethodUnmarshalText

SpecValues == InitValues /\ [][NextValues]_vars

-----------------------------------------------------------------------------
(* Claims about the typed values. *)

\* the receiver a call found
Before(k) == IF k = 1 THEN inp ELSE out[k - 1].recv

Formatters == {"DataSize.String", "DataSize.MarshalText"}
SizeParsers == {"ParseDataSize", "DataSize.UnmarshalText"}

\* the byte count a data-size parser call produced
SizeOf(k) == IF out[k].fn = "ParseDataSize" THEN out[k].ret ELSE out[k].recv.bytes

\* C11: a DataSize formats to the empty text if and only if its byte count is
\* 0, the data-size parsers turn the empty text into 0 without an error, the
\* text a zero formats to parses back to 0, and the value parsed from the
\* empty text formats to the empty text.
C11_ZeroIsUnset ==
    \A k \in 1..Len(out) :
        /\ out[k].fn \in Formatters =>
              /\ (out[k].ret = <<>>) <=> (Before(k).bytes = Int64Zero)
              /\ out[k].err = ""
              /\ Before(k).bytes = Int64Zero =>
                    /\ ParseDataSize(out[k].ret).err = ""
                    /\ ParseDataSize(out[k].ret).bytes = Int64Zero
        /\ (out[k].fn \in SizeParsers /\ txt = <<>>) =>
              /\ out[k].err = ""
              /\ SizeOf(k) = Int64Zero
        /\ (out[k].fn = "ParseDataSize" /\ txt = <<>>) =>
              /\ DataSizeString(out[k].ret) = <<>>
              /\ DataSizeMarshalText(out[k].ret) = <<>>
        /\ (k > 1 /\ out[k].fn \in Formatters /\ txt = <<>>
               /\ out[k - 1].fn = "DataSize.UnmarshalText") => out[k].ret = <<>>

\* the empty text is parsed into a receiver that held 5 bytes and the result
\* is formatted: both calls have acted, and the unset value came back as ""
C11_Witness ==
    /\ txt = <<>> /\ inp = SetValues /\ Len(out) = 2
    /\ out[1].fn = "DataSize.UnmarshalText" /\ out[1].recv.bytes = Int64Zero
    /\ out[2].fn = "DataSize.String" /\ out[2].ret = <<>>


RECURSIVE DecValue(_)
\* the number a string of decimal digits denotes
DecValue(ds) == IF ds = <<>> THEN 0
                ELSE 10 * DecValue(SubSeq(ds, 1, Len(ds) - 1)) + DigitVal(ds[Len(ds)])

\* the digits of a text that is an optional sign followed by digits
Unsigned(t) == IF t # <<>> /\ t[1] \in {"+", "-"} THEN Tail(t) ELSE t
IsBase10(t) == Unsigned(t) # <<>> /\ \A i \in 1..Len(Unsigned(t)) : IsDigit(Unsigned(t)[i])
\* the integer a base-10 text of at most six digits denotes
IntValue(t) == IF t[1] = "-" THEN 0 - DecValue(Unsigned(t)) ELSE DecValue(Unsigned(t))
IsPortText(t) == IsBase10(t) /\ Len(Unsigned(t)) <= 6
                 /\ IntValue(t) >= 1 /\ IntValue(t) <= 65535

PortCalls == {k \in 1..Len(out) : out[k].fn = "Port.UnmarshalText"}

\* C12: Port.UnmarshalText returns no error exactly when the trimmed text is a
\* base-10 integer between 1 and 65535, which it then stores; on every other
\* text (empty, 0, negative, 65536 and above, not a number, a decimal) it
\* returns an error and the Port keeps the value it had.
C12_PortRange ==
    \A k \in PortCalls :
        /\ (out[k].err = "") <=> IsPortText(TrimSpace(txt))
        /\ out[k].err = "" => out[k].recv.port = IntValue(TrimSpace(txt))
        /\ out[k].err # "" => out[k].recv.port = Before(k).port
        /\ out[k].recv = [Before(k) EXCEPT !.port = out[k].recv.port]

\* the padded text " 8080 " is stored as 8080 over an earlier 443
C12_Witness ==
    /\ txt = <<" ", "8", "0", "8", "0", " ">> /\ inp = SetValues
    /\ Len(out) = 1 /\ out[1].fn = "Port.UnmarshalText"
    /\ out[1].err = "" /\ out[1].recv.port = 8080


HexDigits == {"0", "1", "2", "3", "4", "5", "6", "7", "8", "9",
              "a", "b", "c", "d", "e", "f", "A", "B", "C", "D", "E", "F"}
IsFingerprintText(t) == t # <<>> /\ Len(t) % 2 = 0 /\ \A i \in 1..Len(t) : t[i] \in HexDigits

CertCalls == {k \in 1..Len(out) : out[k].fn = "CertSHA256.UnmarshalText"}

\* C13: CertSHA256.UnmarshalText returns no error exactly when the trimmed
\* text is a non-empty, even-length string of hexadecimal digits of either
\* case, and then stores the trimmed text unchanged; a text that is empty once
\* trimmed, or that holds a character that is no hexadecimal digit, is
\* rejected and the receiver keeps its value.
C13_HexFingerprint ==
    \A k \in CertCalls :
        /\ (out[k].err = "") <=> IsFingerprintText(TrimSpace(txt))
        /\ out[k].err = "" => out[k].recv.hash = TrimSpace(txt)
        /\ out[k].err # "" => out[k].recv.hash = Before(k).hash


\* position of the first character of t that is in cs, or Len(t) + 1
FirstOf(t, cs) == IF \E i \in 1..Len(t) : t[i] \in cs
                  THEN CHOOSE i \in 1..Len(t) : t[i] \in cs /\ \A j \in 1..(i - 1) : t[j] \notin cs
                  ELSE Len(t) + 1

\* scheme ":" "//" authority ...: the scheme is a letter followed by letters,
\* digits, "+", "-" or "."; the authority runs to the next "/", "?" or "#"
SchemeLen(t) == FirstOf(t, {":"}) - 1
HasScheme(t) ==
    /\ SchemeLen(t) >= 1 /\ SchemeLen(t) < Len(t)
    /\ t[1] \in Letters
    /\ \A i \in 1..SchemeLen(t) : t[i] \in Letters \/ IsDigit(t[i]) \/ t[i] \in {"+", "-", "."}
AfterScheme(t) == SubSeq(t, SchemeLen(t) + 2, Len(t))
AuthorityOf(t) ==
    IF HasPrefix(AfterScheme(t), <<"/", "/">>)
    THEN SubSeq(AfterScheme(t), 3,
                FirstOf(SubSeq(AfterScheme(t), 3, Len(AfterScheme(t))), {"/", "?", "#"}) + 1)
    ELSE <<>>
\* a host, and after a colon nothing but the digits of a port
HasHost(t) ==
    /\ AuthorityOf(t) # <<>>
    /\ \A i \in 1..Len(AuthorityOf(t)) : AuthorityOf(t)[i] \notin {" ", "@", "<", ">"}
    /\ \A i \in 1..Len(AuthorityOf(t)) :
          AuthorityOf(t)[i] = ":" =>
              \A j \in (i + 1)..Len(AuthorityOf(t)) : IsDigit(AuthorityOf(t)[j])
IsServerURLText(t) == HasScheme(t) /\ HasHost(t)

\* the texts the tests name as rejected: empty, no scheme, no host
RejectedURLs == {<<>>, <<"h","/","s">>, <<"n","o","t","-","a","-","u","r","l">>,
                 <<"h","t","t","p","s",":","/","/","/","s">>,
                 <<"h","t","t","p","s",":","/","/">>}

URLCalls == {k \in 1..Len(out) : out[k].fn = "ServerURL.UnmarshalText"}

\* C14: ServerURL.UnmarshalText returns no error exactly when the trimmed text
\* is a URL with a non-empty scheme and a non-empty host, and then stores the
\* trimmed text as it is, path, query and port included; the empty text, a
\* text without a scheme and a scheme without a host are rejected and the
\* receiver keeps its value.
C14_SchemeAndHost ==
    \A k \in URLCalls :
        /\ (out[k].err = "") <=> IsServerURLText(TrimSpace(txt))
        /\ out[k].err = "" => out[k].recv.url = TrimSpace(txt)
        /\ out[k].err # "" => out[k].recv.url = Before(k).url
        /\ txt \in RejectedURLs => out[k].err # ""

\* the padded URL " https://h/s " replaces an earlier URL, without its padding
C14_Witness ==
    /\ txt = <<" ","h","t","t","p","s",":","/","/","h","/","s"," ">> /\ inp = SetValues
    /\ Len(out) = 1 /\ out[1].fn = "ServerURL.UnmarshalText"
    /\ out[1].err = "" /\ out[1].recv.url = <<"h","t","t","p","s",":","/","/","h","/","s">>


MethodCalls == {k \in 1..Len(out) : out[k].fn = "EncryptionMethod.UnmarshalText"}

\* the four method names, spelled out
MethodNames == {<<"a","e","s","-","2","5","6","-","g","c","m">>,
                <<"a","e","s","-","1","9","2","-","g","c","m">>,
                <<"a","e","s","-","1","2","8","-","g","c","m">>,
                <<"c","h","a","c","h","a","2","0","-","p","o","l","y","1","3","0","5">>}

\* every method name occurs in the text
RECURSIVE OccursAt(_, _, _)
OccursAt(t, w, i) == i + Len(w) - 1 <= Len(t)
                     /\ (SubSeq(t, i, i + Len(w) - 1) = w \/ OccursAt(t, w, i + 1))
ListsValidMethods(t) == \A w \in MethodNames : OccursAt(t, w, 1)

\* C15: EncryptionMethod.UnmarshalText trims the text; an empty trimmed text
\* yields the default aes-192-gcm; any other text is accepted exactly when,
\* trimmed and with its case kept, it is one of the four method names, which
\* is then stored; every other text gives an error that lists the valid
\* methods and leaves the method unchanged.
C15_MethodOrDefault ==
    \A k \in MethodCalls :
        /\ TrimSpace(txt) = <<>> =>
              out[k].err = "" /\ out[k].recv.method = <<"a","e","s","-","1","9","2","-","g","c","m">>
        /\ TrimSpace(txt) # <<>> =>
              /\ (out[k].err = "") <=> (TrimSpace(txt) \in MethodNames)
              /\ out[k].err = "" => out[k].recv.method = TrimSpace(txt)
        /\ out[k].err # "" =>
              /\ ListsValidMethods(out[k].msg)
              /\ out[k].recv.method = Before(k).method

-----------------------------------------------------------------------------
(* Claims about the command line and the API client. *)

\* the three argument sets validateArgs is to refuse
NoKeyGiven(a, cmd) == a.cmd = cmd /\ a.keyID = <<>> /\ a.keyName = <<>>
NoEditGiven(a) == a.cmd = "keys edit" /\ a.newName = <<>> /\ a.dataLimit = Int64Zero
                  /\ ~a.removeLimit
Refused(a) == NoKeyGiven(a, "keys delete") \/ NoKeyGiven(a, "keys edit") \/ NoEditGiven(a)

\* the arguments are decoded and validateArgs has returned
ArgsValidated == parsed # NoArgs /\ pc # "validate"
ValidationFailed == pc = "exited" /\ result.exit = ExitParser

\* C16: once the arguments are decoded, validateArgs returns an error (and the
\* process ends through the parser's failure path) if and only if keys delete
\* or keys edit names neither a key ID nor a key name, or keys edit asks for
\* no new name, no data limit and no removal of the limit; every other
\* argument set, the ones without a keys command included, passes.
C16_ValidateArgs == ArgsValidated => (ValidationFailed <=> Refused(parsed))

\* keys edit with a key name and nothing to change is refused
C16_Witness ==
    /\ ValidationFailed /\ parsed.cmd = "keys edit" /\ parsed.keyName # <<>>
    /\ NoEditGiven(parsed)


\* the operations that decode a body, and the status each operation takes
\* for its success
Decoding == {"GetServerInfo", "ListAccessKeys", "CreateAccessKey", "GetTransferMetrics"}
SuccessOf(op) == IF op = "CreateAccessKey" THEN 201
                 ELSE IF op \in Decoding THEN 200 ELSE 204

\* the call was answered with the success status of its operation, and with a
\* JSON body where the operation decodes one
Succeeded(e) == /\ e.callErr = NilErr /\ e.resp.present
                /\ e.resp.status = SuccessOf(e.op)
                /\ e.op \in Decoding => e.resp.kind = "json"

SameKey(k, o) == /\ k.ID = o.id /\ k.Name = o.name /\ k.Password = o.password
                 /\ k.Port = o.port /\ k.Method = o.method /\ k.AccessURL = o.accessUrl

\* C17: an operation answered with its success status returns a nil error and
\* the decoded body: CreateAccessKey on 201 the AccessKey with the id, name,
\* password, port, method and accessUrl of the body, ListAccessKeys on 200 the
\* keys of the accessKeys array in their order, GetServerInfo and
\* GetTransferMetrics on 200 the descriptor and the per-user byte map of the
\* body; the operations answered with 204 return nil.
C17_DecodedOnSuccess ==
    \A n \in 1..Len(apiLog) :
        Succeeded(apiLog[n]) =>
            /\ apiLog[n].err = NilErr
            /\ apiLog[n].op \in Decoding =>
                  /\ ~apiLog[n].nil
                  /\ Len(apiLog[n].keys) = Len(apiLog[n].resp.keys)
            /\ apiLog[n].op \in {"CreateAccessKey", "ListAccessKeys"} =>
                  \A i \in 1..Len(apiLog[n].resp.keys) :
                      SameKey(apiLog[n].keys[i], apiLog[n].resp.keys[i])
            /\ apiLog[n].op = "GetServerInfo" =>
                  /\ apiLog[n].keys[1].Name = apiLog[n].resp.keys[1].name
                  /\ apiLog[n].keys[1].ServerID = apiLog[n].resp.keys[1].serverId
                  /\ apiLog[n].keys[1].MetricsEnabled = apiLog[n].resp.keys[1].metricsEnabled
                  /\ apiLog[n].keys[1].Version = apiLog[n].resp.keys[1].version
                  /\ apiLog[n].keys[1].PortForNewAccessKeys
                         = apiLog[n].resp.keys[1].portForNewAccessKeys
                  /\ apiLog[n].keys[1].HostnameForAccessKeys
                         = apiLog[n].resp.keys[1].hostnameForAccessKeys
            /\ apiLog[n].op = "GetTransferMetrics" =>
                  apiLog[n].keys[1].BytesTransferredByUserId
                      = apiLog[n].resp.keys[1].bytesTransferredByUserId

\* a list of two keys, "2" before "1", came back in that order
C17_Witness ==
    /\ Len(apiLog) = 1 /\ Succeeded(apiLog[1]) /\ apiLog[1].op = "ListAccessKeys"
    /\ Len(apiLog[1].keys) = 2
    /\ apiLog[1].keys[1].ID = <<"2">> /\ apiLog[1].keys[2].ID = <<"1">>

-----------------------------------------------------------------------------
(* The request line of each operation of the API client, as text: serverURL
   and the path are concatenated, http.NewRequest parses the result, and the
   request goes out with the path and the query of the parsed URL. *)

MaxIDLen == 2

\* the characters of a string literal of client.go
Chars(str) ==
    IF str = "/server" THEN <<"/","s","e","r","v","e","r">>
    ELSE IF str = "/access-keys" THEN <<"/","a","c","c","e","s","s","-","k","e","y","s">>
    ELSE IF str = "/access-keys/" THEN <<"/","a","c","c","e","s","s","-","k","e","y","s","/">>
    ELSE IF str = "/metrics/transfer" THEN <<"/","m","e","t","r","i","c","s","/","t","r","a","n","s","f","e","r">>
    ELSE IF str = "/name" THEN <<"/","n","a","m","e">>
    ELSE IF str = "/data-limit" THEN <<"/","d","a","t","a","-","l","i","m","i","t">>
    ELSE <<>>

\* serverURL + "/access-keys/" + url.PathEscape(keyID) + "/name", and the like
RequestURL(serverURL, path) == serverURL \o Chars(path.res) \o path.id \o Chars(path.tail)

\* s up to and after the first c (strings.Cut)
CutBefore(s, c) == IF IndexOf(s, c) = 0 THEN s ELSE SubSeq(s, 1, IndexOf(s, c) - 1)
CutAfter(s, c) == IF IndexOf(s, c) = 0 THEN <<>> ELSE SubSeq(s, IndexOf(s, c) + 1, Len(s))

\* what follows the authority of "//authority/path"
AfterAuthority(rest) ==
    IF HasPrefix(rest, <<"/", "/">>)
    THEN (IF IndexOf(SubSeq(rest, 3, Len(rest)), "/") = 0 THEN <<>>
          ELSE SubSeq(rest, 2 + IndexOf(SubSeq(rest, 3, Len(rest)), "/"), Len(rest)))
    ELSE rest

\* url.Parse as http.NewRequest uses it: the fragment is cut off at "#", the
\* query at the first "?" after the scheme, and the path is what follows the
\* authority: [path, query]
RequestTarget(rawURL) ==
    [path  |-> AfterAuthority(CutBefore(getSchemeAt(CutBefore(rawURL, "#"), 1).rest, "?")),
     query |-> CutAfter(getSchemeAt(CutBefore(rawURL, "#"), 1).rest, "?")]

\* the base URLs: an origin, a path and possibly a query, each a text that
\* ServerURL.UnmarshalText accepts
Origin == <<"h","t","t","p","s",":","/","/","h">>
WireBases == {[path |-> <<"/","s">>, query |-> <<>>],
              [path |-> <<"/","s","/">>, query |-> <<>>],
              [path |-> <<"/","s">>, query |-> <<"k","=","v">>]}
BaseURL(b) == Origin \o b.path \o (IF b.query = <<>> THEN <<>> ELSE <<"?">> \o b.query)

\* the key IDs: every text of at most MaxIDLen of these characters
IDChars == {"7", "a", "/", "?", "#", "%", " ", ".", ":"}
WireIDs == UNION {[1..n -> IDChars] : n \in 0..MaxIDLen}

IDOps == {"DeleteAccessKey", "RenameAccessKey", "SetAccessKeyDataLimit",
          "RemoveAccessKeyDataLimit"}
PlainOps == {"GetServerInfo", "ListAccessKeys", "CreateAccessKey", "GetTransferMetrics"}
WireInputs == {[op |-> o, base |-> b, id |-> i] : o \in IDOps, b \in WireBases, i \in WireIDs}
         \cup {[op |-> o, base |-> b, id |-> <<>>] : o \in PlainOps, b \in WireBases}

InitWire == /\ CliOff /\ txt = <<>> /\ out = <<>>
            /\ inp \in {w \in WireInputs :
                            ServerURLUnmarshalText(<<>>, BaseURL(w.base)).err = ""}

\* the request of the operation goes out
Sent(line, target) ==
    /\ out = <<>>
    /\ out' = <<[method |-> line.method, path |-> target.path, query |-> target.query]>>
    /\ UNCHANGED <<txt, inp>> /\ UNCHANGED cliVars

Send(op) == Sent(RequestLine(op, inp.id),
                 RequestTarget(RequestURL(BaseURL(inp.base), RequestLine(op, inp.id).path)))

SendGetServerInfo == inp.op = "GetServerInfo" /\ Send("GetServerInfo")
SendListAccessKeys == inp.op = "ListAccessKeys" /\ Send("ListAccessKeys")
SendCreateAccessKey == inp.op = "CreateAccessKey" /\ Send("CreateAccessKey")
SendDeleteAccessKey == inp.op = "DeleteAccessKey" /\ Send("DeleteAccessKey")
SendGetTransferMetrics == inp.op = "GetTransferMetrics" /\ Send("GetTransferMetrics")
SendRenameAccessKey == inp.op = "RenameAccessKey" /\ Send("RenameAccessKey")
SendSetAccessKeyDataLimit == inp.op = "SetAccessKeyDataLimit" /\ Send("SetAccessKeyDataLimit")
SendRemoveAccessKeyDataLimit ==
    inp.op = "RemoveAccessKeyDataLimit" /\ Send("RemoveAccessKeyDataLimit")

NextWire ==
    \/ SendGetServerInfo
    \/ SendListAccessKeys
    \/ SendCreateAccessKey
    \/ SendDeleteAccessKey
    \/ SendGetTransferMetrics
    \/ SendRenameAccessKey
    \/ SendSetAccessKeyDataLimit
    \/ SendRemoveAccessKeyDataLimit

SpecWire == InitWire /\ [][NextWire]_vars


\* the wire contract: method, the path before the key ID and the path after it
ContractMethod(op) ==
    IF op \in {"GetServerInfo", "ListAccessKeys", "GetTransferMetrics"} THEN "GET"
    ELSE IF op = "CreateAccessKey" THEN "POST"
    ELSE IF op \in {"DeleteAccessKey", "RemoveAccessKeyDataLimit"} THEN "DELETE"
    ELSE "PUT"
ContractPrefix(op) ==
    IF op = "GetServerInfo" THEN <<"/","s","e","r","v","e","r">>
    ELSE IF op = "GetTransferMetrics"
    THEN <<"/","m","e","t","r","i","c","s","/","t","r","a","n","s","f","e","r">>
    ELSE IF op \in {"ListAccessKeys", "CreateAccessKey"}
    THEN <<"/","a","c","c","e","s","s","-","k","e","y","s">>
    ELSE <<"/","a","c","c","e","s","s","-","k","e","y","s","/">>
ContractTail(op) ==
    IF op = "RenameAccessKey" THEN <<"/","n","a","m","e">>
    ELSE IF op \in {"SetAccessKeyDataLimit", "RemoveAccessKeyDataLimit"}
    THEN <<"/","d","a","t","a","-","l","i","m","i","t">>
    ELSE <<>>

\* the character a percent-encoded octet stands for
Octet(h, l) == IF <<h, l>> = <<"2", "F">> THEN "/"
               ELSE IF <<h, l>> = <<"2", "0">> THEN " "
               ELSE IF <<h, l>> = <<"3", "F">> THEN "?"
               ELSE IF <<h, l>> = <<"2", "3">> THEN "#"
               ELSE IF <<h, l>> = <<"2", "5">> THEN "%"
               ELSE "invalid"
RECURSIVE Unescape(_)
\* percent-decoding of a path segment
Unescape(seg) ==
    IF seg = <<>> THEN <<>>
    ELSE IF seg[1] = "%" /\ Len(seg) >= 3
    THEN <<Octet(seg[2], seg[3])>> \o Unescape(SubSeq(seg, 4, Len(seg)))
    ELSE <<seg[1]>> \o Unescape(Tail(seg))

\* the part of the path sent that stands where the contract has {id}
SegmentSent(w) ==
    SubSeq(w.path, Len(inp.base.path) + Len(ContractPrefix(inp.op)) + 1,
           Len(w.path) - Len(ContractTail(inp.op)))

\* the request sent has the method of the contract and, after the path of the
\* base URL, the path of the contract, the key ID being one segment of it
\* that decodes to the ID; the query of the base URL is left as it is
OnContract(w) ==
    /\ w.method = ContractMethod(inp.op)
    /\ w.query = inp.base.query
    /\ w.path = inp.base.path \o ContractPrefix(inp.op) \o SegmentSent(w)
                   \o ContractTail(inp.op)
    /\ \A i \in 1..Len(SegmentSent(w)) : SegmentSent(w)[i] \notin {"/", "?", "#"}
    /\ Unescape(SegmentSent(w)) = inp.id

\* C18 as stated: every operation sends the method and the path of the wire
\* contract relative to the base URL, and in the four paths with a key ID the
\* ID is percent-encoded into exactly one path segment, for every ID.
C18_WireContract == \A n \in 1..Len(out) : OnContract(out[n])

\* C18, for the base URLs it holds for: when the base URL has no query, every
\* operation sends the method and the path of the wire contract after the
\* path of the base URL, and the key ID is percent-encoded into exactly one
\* path segment, for every ID.
C18_WireContractNoQuery ==
    \A n \in 1..Len(out) : inp.base.query = <<>> => OnContract(out[n])

\* a rename of the key "a/" went out on a base URL without a query: the slash
\* of the ID is sent encoded
C18_Witness ==
    /\ Len(out) = 1 /\ inp.op = "RenameAccessKey" /\ inp.base.query = <<>>
    /\ inp.id = <<"a", "/">>
    /\ out[1].path = <<"/","s">> \o ContractPrefix("RenameAccessKey")
                        \o <<"a","%","2","F">> \o ContractTail("RenameAccessKey")


\* the bodies of the POST /access-keys requests of this run
CreateBodies == {httpLog[j].json : j \in {i \in 1..Len(httpLog) : httpLog[i].method = "POST"}}

\* C19: the body of a create request has a field only for a value that is
\* set: name if and only if a key name was given, port if and only if the
\* port is above 0, limit if and only if the data limit is above 0 bytes; a
\* create without --data-limit, or with a limit of zero, carries no limit.
C19_CreateOmitsUnset ==
    \A b \in CreateBodies :
        /\ "name" \in DOMAIN b <=> parsed.keyName # <<>>
        /\ "name" \in DOMAIN b => b["name"] = parsed.keyName
        /\ "port" \in DOMAIN b <=> parsed.port > 0
        /\ "port" \in DOMAIN b => b["port"] = parsed.port
        /\ "limit" \in DOMAIN b <=> (parsed.dataLimit # Int64Zero /\ ~parsed.dataLimit.neg)
        /\ (~args.dataLimit.given \/ args.dataLimit.text = <<"0">>) => "limit" \notin DOMAIN b

\* a create with --data-limit 0 and nothing else went out with the method
\* as its only field
C19_Witness ==
    /\ args.cmd = "keys create" /\ args.dataLimit = Opt(<<"0">>)
    /\ CreateBodies # {} /\ \A b \in CreateBodies : DOMAIN b = {"method"}


ParserFns == {"ParseDataSize", "DataSize.UnmarshalText", "ServerURL.UnmarshalText",
              "CertSHA256.UnmarshalText", "Port.UnmarshalText",
              "EncryptionMethod.UnmarshalText"}

\* the field of the receiver a parser writes ("none": ParseDataSize has no receiver)
FieldOf(fn) == IF fn = "DataSize.UnmarshalText" THEN "bytes"
               ELSE IF fn = "ServerURL.UnmarshalText" THEN "url"
               ELSE IF fn = "CertSHA256.UnmarshalText" THEN "hash"
               ELSE IF fn = "Port.UnmarshalText" THEN "port"
               ELSE IF fn = "EncryptionMethod.UnmarshalText" THEN "method"
               ELSE "none"

\* two calls gave the same error with the same message text and the same value
SameResult(j, k) ==
    /\ out[j].err = out[k].err /\ out[j].msg = out[k].msg /\ out[j].ret = out[k].ret
    /\ (out[j].err = "" /\ FieldOf(out[j].fn) # "none") =>
           out[j].recv[FieldOf(out[j].fn)] = out[k].recv[FieldOf(out[k].fn)]

\* C20: the typed-value parsers are deterministic and pure: two calls of a
\* parser on the same text return the same value and the same error, message
\* text included, and a call changes nothing but the field of the receiver it
\* parses into.
C20_Deterministic ==
    /\ \A j, k \in 1..Len(out) :
          (out[j].fn = out[k].fn /\ out[j].fn \in ParserFns) => SameResult(j, k)
    /\ \A k \in 1..Len(out) :
          out[k].fn \in ParserFns =>
              \A f \in DOMAIN out[k].recv \ {FieldOf(out[k].fn)} :
                  out[k].recv[f] = Before(k)[f]

-----------------------------------------------------------------------------
(* The registry commands on their own: servers add, add-json, update and
   delete, with the JSON texts add-json may be handed. *)

certOther == <<"c", "d">>

\* the JSON texts: no JSON, an object without apiUrl, one without certSha256,
\* two objects with a URL and a fingerprint, and one whose apiUrl has no
\* scheme and whose certSha256 is no hexadecimal text
JSONInputs == {JSONGarbage, JSONObject(<<>>, certMixed), JSONObject(urlHttps, <<>>),
               JSONObject(urlHttps, certMixed), JSONObject(urlHttp, certOther),
               JSONObject(urlNoScheme, certNotHex)}

RegistryCommands ==
       {a \in Commands : a.cmd \in {"servers add", "servers update", "servers delete"}}
  \cup {[NoArgs EXCEPT !.cmd = "servers add-json", !.name = n, !.json = j] :
            n \in Names, j \in JSONInputs}

InvokeRegistry ==
    /\ pc = "idle"
    /\ \E a \in RegistryCommands : args' = a
    /\ pc' = "parse"
    /\ before' = servers
    /\ UNCHANGED <<servers, parsed, call, keyID, conn, httpLog, tlsLog, bodies, apiLog,
                   saves, result, txt, inp, out>>

NextRegistry ==
    \/ InvokeRegistry \/ MustParse \/ Validate \/ Exit
    \/ ConfigManager_AddServer \/ ConfigManager_AddServerFromJSON
    \/ ConfigManager_UpdateServer \/ ConfigManager_DeleteServer

SpecRegistry == Init /\ [][NextRegistry]_vars

\* C21: after any sequence of servers add, add-json, update and delete, every
\* entry of the registry has a URL with a scheme and a host and a non-empty
\* hexadecimal fingerprint, values ServerURL.UnmarshalText and
\* CertSHA256.UnmarshalText accept.
C21_StoredValuesValid ==
    \A n \in Names :
        servers[n].present =>
            /\ IsServerURLText(servers[n].URL)
            /\ ServerURLUnmarshalText(<<>>, servers[n].URL).err = ""
            /\ IsFingerprintText(servers[n].CertSha256)
            /\ CertSHA256UnmarshalText(<<>>, servers[n].CertSha256).err = ""


\* a registry command got past MustParse and validateArgs and its handler returned
Handled(cmd) ==
    pc = "exited" /\ parsed.cmd = cmd /\ result.exit # ExitParser /\ ~result.panic

OthersUnchanged(name) == \A m \in Names \ {name} : servers[m] = before[m]

\* C22: servers update on an existing server changes at most the URL of that
\* entry: the entry stays under its name with its fingerprint and all other
\* entries are as they were; without a --url nothing changes; on an unknown
\* name it returns not-found and changes nothing; and no command changes the
\* fingerprint of an entry that is in the registry before and after it.
C22_UpdateFrame ==
    /\ \A n \in Names :
          before[n].present /\ servers[n].present =>
              servers[n].CertSha256 = before[n].CertSha256
    /\ Handled("servers update") =>
          IF before[parsed.name].present
          THEN /\ result.err = NilErr
               /\ servers[parsed.name].present
               /\ servers[parsed.name].CertSha256 = before[parsed.name].CertSha256
               /\ OthersUnchanged(parsed.name)
               /\ ~args.url.given => servers = before
               /\ args.url.given => servers[parsed.name].URL = args.url.text
          ELSE /\ result.err = ServerNotFound
               /\ servers = before

\* an update without --url on a present server, an update that changed the URL
\* of one of two present servers, and an update of an unknown name
C22_Witness ==
    /\ Handled("servers update")
    /\ before[parsed.name].present
    /\ \A m \in Names : before[m].present
    /\ servers[parsed.name].URL # before[parsed.name].URL
    /\ result.err = NilErr

C22_WitnessNoURL ==
    Handled("servers update") /\ before[parsed.name].present /\ ~args.url.given

C22_WitnessUnknown ==
    Handled("servers update") /\ ~before[parsed.name].present
       /\ \E m \in Names : before[m].present


AlreadyExists == Err("conflict", "server already exists")

\* the JSON text of the running add-json has both fields and is JSON
CompleteJSON == parsed.json.kind = "object" /\ parsed.json.apiUrl # <<>>
                   /\ parsed.json.certSha256 # <<>>

\* a successful add or delete changes the named entry and no other
AddDeleteFrame ==
    /\ (Handled("servers add") \/ Handled("servers add-json")) /\ result.err = NilErr =>
          ~before[parsed.name].present /\ servers[parsed.name].present
             /\ OthersUnchanged(parsed.name)
    /\ Handled("servers delete") =>
          IF before[parsed.name].present
          THEN result.err = NilErr /\ ~servers[parsed.name].present
                  /\ OthersUnchanged(parsed.name)
          ELSE result.err = ServerNotFound /\ servers = before

\* C23: server names are unique keys: servers add and servers add-json with a
\* name that is in the registry return 'already exists' and leave the registry
\* as it was; servers delete of an absent name returns not-found and leaves
\* the registry as it was; a successful add or delete changes only the named
\* entry.
C23_UniqueNames ==
    /\ (Handled("servers add") \/ Handled("servers add-json")) /\ before[parsed.name].present =>
          result.err = AlreadyExists /\ servers = before
    /\ AddDeleteFrame

\* C23 as the code has it: add-json looks at its JSON text before it looks at
\* the registry, so with a name that is in the registry it returns 'already
\* exists' only for a JSON object with a non-empty apiUrl and certSha256, and
\* the JSON error otherwise; the registry is as it was in both cases.
C23_UniqueNamesCompleteJSON ==
    /\ Handled("servers add") /\ before[parsed.name].present =>
          result.err = AlreadyExists /\ servers = before
    /\ Handled("servers add-json") /\ before[parsed.name].present =>
          /\ servers = before
          /\ IF CompleteJSON THEN result.err = AlreadyExists
             ELSE result.err.class = "validation"
    /\ AddDeleteFrame

\* an add and an add-json refused for a name that is in the registry with
\* another URL and fingerprint than the ones given
C23_Witness ==
    /\ Handled("servers add-json") /\ CompleteJSON
    /\ before[parsed.name].present
    /\ before[parsed.name].CertSha256 # parsed.json.certSha256
    /\ result.err = AlreadyExists

C23_WitnessAdd ==
    /\ Handled("servers add") /\ before[parsed.name].present
    /\ before[parsed.name].URL # parsed.url
    /\ result.err = AlreadyExists


\* the commands that target a server by name, and the name they target
ServerCommands == {"servers get", "servers metrics", "keys list", "keys create",
                   "keys delete", "keys edit"}
Target == IF parsed.cmd = "servers get" THEN parsed.name ELSE parsed.server

\* C24: every command that targets a server by name (servers get, servers
\* metrics, keys list, keys create, keys delete by ID or by name, keys edit)
\* returns 'server not found' and issues no HTTP request (and opens no
\* connection) when the name is not in the registry.
C24_ServerNotFound ==
    parsed.cmd \in ServerCommands /\ pc \notin {"parse", "validate"}
       /\ ~(pc = "exited" /\ result.exit = ExitParser)
       /\ ~servers[Target].present =>
          /\ httpLog = <<>> /\ tlsLog = <<>> /\ apiLog = <<>> /\ conn = 0
          /\ pc \in {"handle", "exited"}
          /\ pc = "exited" => result.err = ServerNotFound /\ result.exit = ExitError

\* keys edit by name with a new name, and keys delete by ID, on a name that is
\* not in the registry while the other name is
C24_Witness ==
    /\ pc = "exited" /\ parsed.cmd = "keys edit" /\ parsed.keyName # <<>>
    /\ parsed.newName # <<>>
    /\ ~servers[Target].present /\ \E m \in Names : servers[m].present
    /\ result.err = ServerNotFound

C24_WitnessDelete ==
    /\ pc = "exited" /\ parsed.cmd = "keys delete" /\ parsed.keyID # <<>>
    /\ parsed.keyName = <<>>
    /\ ~servers[Target].present
    /\ result.err = ServerNotFound


\* the requests that carry a data limit: the POST of keys create with a limit
\* field and the PUT of keys edit
LimitRequests ==
    {i \in 1..Len(httpLog) : httpLog[i].body.kind \in {"create", "limit"}
                                /\ httpLog[i].body.limit.set}

\* C25: for keys create and keys edit the byte count sent as the data limit is
\* the byte count parsed from the text of --data-limit: DataSize.String of
\* the parsed value, parsed again with ParseDataSize, gives the value back.
C25_LimitRoundTrip ==
    /\ \A i \in LimitRequests : httpLog[i].body.limit.bytes = parsed.dataLimit
    /\ parsed.cmd \in {"keys create", "keys edit"} /\ IsPositive(parsed.dataLimit) =>
          /\ ParseDataSize(DataSizeString(parsed.dataLimit)).err = ""
          /\ ParseDataSize(DataSizeString(parsed.dataLimit)).bytes = parsed.dataLimit


\* C26: every HTTP request of an API client operation travels on a connection
\* whose peer passed the fingerprint check for the fingerprint stored for the
\* server, whatever base URL ServerURL.UnmarshalText accepted, http included.
C26_EveryRequestPinned ==
    \A j \in 1..Len(httpLog) :
        /\ httpLog[j].hs \in 1..Len(tlsLog)
        /\ Pinned(tlsLog[httpLog[j].hs])
        /\ tlsLog[httpLog[j].hs].pin = servers[Target].CertSha256

\* the same for the requests to a base URL with the https scheme
C26_EveryHTTPSRequestPinned ==
    \A j \in 1..Len(httpLog) :
        ToLower(urlParse(httpLog[j].url).scheme) = <<"h","t","t","p","s">> =>
            /\ httpLog[j].hs \in 1..Len(tlsLog)
            /\ Pinned(tlsLog[httpLog[j].hs])
            /\ tlsLog[httpLog[j].hs].pin = servers[Target].CertSha256

-----------------------------------------------------------------------------
(* The API commands on a registry read from a configuration file whose
   entries may lack certSha256 (the field is omitempty). *)

\* the entries yaml.Unmarshal may give a name: none, one with a fingerprint,
\* and two without, reached over https and over http
LoadedEntries == {NoServer, Server(urlHttps, certMixed), Server(urlHttps, <<>>),
                  Server(urlHttp, <<>>)}

InitLoaded ==
    /\ servers \in [Names -> LoadedEntries]
    /\ before = servers
    /\ pc = "idle" /\ args = NoArgs /\ parsed = NoArgs /\ call = Idle(<<>>)
    /\ keyID = <<>> /\ conn = 0 /\ httpLog = <<>> /\ tlsLog = <<>>
    /\ bodies = <<>> /\ apiLog = <<>> /\ saves = 0 /\ result = NoResult
    /\ txt = <<>> /\ inp = <<>> /\ out = NoOut

LoadedCommands == {a \in Commands : a.cmd \in {"servers get", "keys list"}}

InvokeLoaded ==
    /\ pc = "idle"
    /\ \E a \in LoadedCommands : args' = a
    /\ pc' = "parse"
    /\ before' = servers
    /\ UNCHANGED <<servers, parsed, call, keyID, conn, httpLog, tlsLog, bodies, apiLog,
                   saves, result, txt, inp, out>>

NextLoaded ==
    \/ InvokeLoaded \/ MustParse \/ Validate \/ Exit
    \/ ConfigManager_GetServer \/ ConfigManager_ListAccessKeys
    \/ Dial \/ RoundTrip
    \/ APIClient_GetServerInfo \/ APIClient_ListAccessKeys

SpecLoaded == InitLoaded /\ [][NextLoaded]_vars

\* C27: a client built with the empty fingerprint (a registry entry without
\* certSha256) rejects every peer certificate: no handshake of it succeeds,
\* no request is sent over TLS, and every operation on its https server
\* returns an error and no response.
C27_EmptyPinFailsClosed ==
    /\ \A i \in 1..Len(tlsLog) : tlsLog[i].pin = <<>> => tlsLog[i].err # ""
    /\ \A j \in 1..Len(httpLog) :
          servers[Target].CertSha256 = <<>> => httpLog[j].hs = -1
    /\ \A k \in 1..Len(apiLog) :
          servers[Target].CertSha256 = <<>> /\ servers[Target].URL = urlHttps =>
              apiLog[k].err # NilErr /\ ~apiLog[k].resp.present

\* a client without fingerprint met a peer with a certificate, refused it, and
\* the operation returned the handshake error
C27_Witness ==
    /\ Len(tlsLog) > 0 /\ tlsLog[1].pin = <<>> /\ Len(tlsLog[1].certs) > 0
    /\ tlsLog[1].err = "certificate SHA256 mismatch"
    /\ Len(apiLog) > 0 /\ apiLog[1].err = Err("tls", "certificate SHA256 mismatch")
    /\ httpLog = <<>>


\* the operations keys edit has called so far, in the order of their return
EditOps == [k \in 1..Len(apiLog) |-> apiLog[k].op]
LimitOps == {"RemoveAccessKeyDataLimit", "SetAccessKeyDataLimit"}

\* the place of an operation in the order list, rename, limit
EditRank(op) == IF op = "ListAccessKeys" THEN 1
                ELSE IF op = "RenameAccessKey" THEN 2
                ELSE IF op \in LimitOps THEN 3 ELSE 0

\* the k-th call failed: no response, or a response with another status than
\* the one the operation expects
CallFailed(k) ==
    \/ apiLog[k].callErr # NilErr
    \/ ~apiLog[k].resp.present
    \/ apiLog[k].resp.status # successStatus(apiLog[k].op)

\* list only with a key name, rename only with a new name, one limit call at
\* most, which is the removal exactly when --remove-limit is set, in that
\* order, rename and limit call with one key ID
EditOrder ==
    /\ \A k \in 1..Len(apiLog) : EditRank(EditOps[k]) > 0
    /\ \A k \in 1..(Len(apiLog) - 1) : EditRank(EditOps[k]) < EditRank(EditOps[k + 1])
    /\ \A k \in 1..Len(apiLog) :
          /\ EditOps[k] = "ListAccessKeys" => parsed.keyName # <<>>
          /\ EditOps[k] = "RenameAccessKey" =>
                parsed.newName # <<>> /\ (parsed.keyName # <<>> => k = 2)
          /\ EditOps[k] = "RemoveAccessKeyDataLimit" => parsed.removeLimit
          /\ EditOps[k] = "SetAccessKeyDataLimit" =>
                ~parsed.removeLimit /\ IsPositive(parsed.dataLimit)
          /\ EditRank(EditOps[k]) = 3 =>
                (parsed.keyName # <<>> => EditOps[1] = "ListAccessKeys")
                   /\ (parsed.newName # <<>> => EditOps[k - 1] = "RenameAccessKey")
    /\ \A k, l \in 1..Len(apiLog) :
          EditRank(EditOps[k]) > 1 /\ EditRank(EditOps[l]) > 1 => apiLog[k].id = apiLog[l].id

\* C28: keys edit issues its calls in the order ListAccessKeys (only with a key
\* name), RenameAccessKey (only with a new name), then at most one data-limit
\* call, the removal when --remove-limit is set and the set otherwise; rename
\* and limit call use one key ID; as soon as a call fails the command returns
\* that error and issues no later call.
C28_EditOrder ==
    parsed.cmd = "keys edit" =>
        /\ EditOrder
        /\ \A k \in 1..(Len(apiLog) - 1) : ~CallFailed(k)
        /\ (pc = "exited" /\ Len(apiLog) > 0 /\ CallFailed(Len(apiLog))) =>
              result.err # NilErr

\* the order alone
C28_OrderOnly == parsed.cmd = "keys edit" => EditOrder


\* keys delete or keys edit with a key ID and a key name
BothGiven == parsed.cmd \in {"keys delete", "keys edit"} /\ parsed.keyID # <<>>
                /\ parsed.keyName # <<>>

\* the calls and the requests that name a key
IDCalls == {k \in 1..Len(apiLog) : apiLog[k].op # "ListAccessKeys"}
IDRequests == {j \in 1..Len(httpLog) : httpLog[j].path.id # <<>> \/ httpLog[j].path.tail # ""
                                         \/ httpLog[j].method \in {"DELETE", "PUT"}}

\* every call and request that names a key names id
ActsOn(id) ==
    /\ \A k \in IDCalls : apiLog[k].id = id
    /\ \A j \in IDRequests : httpLog[j].path.id = PathEscape(id)

\* the given ID appears in no call and no request, and the list comes first
GivenIDUnused ==
    /\ \A k \in IDCalls : apiLog[k].id # parsed.keyID
    /\ \A j \in 1..Len(httpLog) : httpLog[j].path.id # PathEscape(parsed.keyID)
    /\ Len(apiLog) >= 1 => apiLog[1].op = "ListAccessKeys"
    /\ IDCalls # {} => Listed

MustBeSpecified == Err("validation", "either --key-id or --key-name must be specified")

C29_WitnessNoMatch ==
    /\ BothGiven /\ pc = "exited" /\ Listed /\ Len(ListedKeys) > 0 /\ Matches = {}
    /\ result.err = KeyNotFound


\* the operations whose result is a pointer the caller reads through
PointerOps == {"GetServerInfo", "CreateAccessKey", "GetTransferMetrics"}

\* C30: for every response status the commands end by returning nil or an
\* error and never crash: an API operation that returns a nil error returns a
\* non-nil result, so keys create and servers get never read through nil.
C30_NoNilDereference ==
    /\ \A k \in 1..Len(apiLog) :
          apiLog[k].op \in PointerOps /\ apiLog[k].err = NilErr => ~apiLog[k].nil
    /\ ~result.panic
    /\ pc = "exited" => result.exit \in {0, ExitError, ExitParser}

=============================================================================
